---- MODULE Spec2Model ----
(***************************************************************************)
(* Model of the diagram tool's indexed graph store and history engine      *)
(* (backend/diagram_manager.py, class DiagramManager) together with the    *)
(* entity model (core/models.py) and the layout functions the store        *)
(* delegates to (src/core/layout.py).                                      *)
(*                                                                         *)
(* Python objects have identity: the node list of the diagram and the      *)
(* id index hold references to the same Node objects.  The model keeps a   *)
(* heap (nodeObj, edgeObj: reference -> field record); the lists and the   *)
(* by-id indexes hold references.                                          *)
(***************************************************************************)
EXTENDS Integers, Sequences, FiniteSets, TLC

\* ------------------------------------------------------------------ bounds

\* DiagramManager(max_history=...): the configured bound of the undo stack.
max_history == 2
\* Node ids the callers use are 1..NumNodeIds (generated ids are drawn from
\* the same pool, always fresh).
NumNodeIds == 2
\* add_node is offered while the node list is shorter than this.
MaxNodes == 2
\* Edge ids are generated; the pool is 1..NumEdgeIds.
NumEdgeIds == 2
\* The number of calls made on the store in one run: with the full input sets
\* (scope "wide"), with one input per operation (scope "deep"), and with one
\* input per operation and what is around the manager: the files on disk, the
\* change callbacks and a second manager (scope "env").
MaxSteps == 4
MaxDeepSteps == 7
MaxEnvSteps == 5
\* the number of change callbacks registered at most
MaxCallbacks == 2

NodeIds == 1..NumNodeIds
EdgeIds == 1..NumEdgeIds

\* ------------------------------------------------------- values and defaults

\* Python's None for string-valued slots.
None == "None"
\* Python's None / empty string for id-valued slots (falsy).
NoId == 0

Tags == {"t1", "t2"}
SnapshotNames == {"s1"}

\* Field defaults of class Node.
DefaultLabel == "New Node"
DefaultType == "component"
DefaultX == 100
DefaultY == 100
DefaultWidth == 150
DefaultHeight == 80
\* Field defaults of DiagramMetadata and Diagram.
DefaultGridSize == 20
DefaultName == "Untitled Diagram"

\* Layout defaults.
DEFAULT_SPACING_X == 200
DEFAULT_SPACING_Y == 150
DEFAULT_START_X == 100
DEFAULT_START_Y == 100

\* ------------------------------------------------------------------ helpers

\* dict helpers: a dict is a function with a finite domain.
EmptyMap == [k \in {} |-> 0]

Put(m, k, v) == [x \in DOMAIN m \cup {k} |-> IF x = k THEN v ELSE m[x]]

Pop(m, k) == [x \in DOMAIN m \ {k} |-> m[x]]

Restrict(m, S) == [x \in DOMAIN m \cap S |-> m[x]]

Range(f) == {f[x] : x \in DOMAIN f}

Min(S) == CHOOSE x \in S : \A y \in S : x <= y

Max(S) == CHOOSE x \in S : \A y \in S : x >= y

\* set.add on dict[key] creating the set when the key is missing.
AddTo(m, k, v) == Put(m, k, (IF k \in DOMAIN m THEN m[k] ELSE {}) \cup {v})

\* set.discard on dict[key] when the key is present.
DiscardFrom(m, k, v) == IF k \in DOMAIN m THEN [m EXCEPT ![k] = @ \ {v}] ELSE m

RECURSIVE AddAll(_, _, _)
AddAll(m, ks, v) ==
    IF ks = {} THEN m
    ELSE LET k == CHOOSE x \in ks : TRUE IN AddAll(AddTo(m, k, v), ks \ {k}, v)

DiscardAll(m, ks, v) == [k \in DOMAIN m |-> IF k \in ks THEN m[k] \ {v} ELSE m[k]]

\* list comprehension [x for x in s if Keep(x)]
Filter(s, Keep(_)) == SelectSeq(s, Keep)

\* the first free object reference
NewRef(used) == Min((1..(Cardinality(used) + 1)) \ used)

\* --------------------------------------------------------------- variables

VARIABLES
    active,         \* self._diagram is not None
    dinfo,          \* the Diagram object's id, name and metadata
    nodes,          \* self._diagram.nodes: list of Node references
    edges,          \* self._diagram.edges: list of Edge references
    nodeObj,        \* heap of the Node objects reachable from nodes / _node_index
    edgeObj,        \* heap of the Edge objects reachable from edges / _edge_index
    node_index,     \* self._node_index: node id -> Node reference
    edge_index,     \* self._edge_index: edge id -> Edge reference
    tag_index,      \* self._tag_index: tag -> set of node ids
    type_index,     \* self._type_index: type -> set of node ids
    edges_by_node,  \* self._edges_by_node: node id -> set of edge ids
    history,        \* self._history: list of snapshots
    future,         \* self._future: list of snapshots
    dirty,          \* self._dirty
    file_path,      \* self._file_path
    snapshots,      \* DiagramManager._snapshots: name -> snapshot entry
    peer,           \* a second DiagramManager of the same process: its diagram
                    \* (by value), stacks, flag and path
    callbacks,      \* self._on_change_callbacks: what each callback does when
                    \* called ("returns" or "raises")
    lastOp,         \* the last call: operation, arguments, outcome, callbacks run
    applied,        \* the call made of a function of the core package: the
                    \* function, its arguments and what it returned
    bridge,         \* main.py's _change_event, the change_broadcaster task's
                    \* position, ws_manager._connections, and the count of
                    \* on_diagram_change calls made and announced
    trail,          \* the diagrams of the current streak of mutations, and the
                    \* number of undo and redo calls that followed it
    steps,          \* the number of calls made so far
    scope           \* which inputs the callers draw from: "wide", "deep" or
                    \* "env"

store == <<active, dinfo, nodes, edges, nodeObj, edgeObj, node_index, edge_index,
           tag_index, type_index, edges_by_node, history, future, dirty>>

vars == <<active, dinfo, nodes, edges, nodeObj, edgeObj, node_index, edge_index,
          tag_index, type_index, edges_by_node, history, future, dirty,
          file_path, snapshots, peer, callbacks, lastOp, applied, bridge, trail,
          steps, scope>>


\* ------------------------------------------------------------ entity model

\* dict.get(key, default)
Get(d, k, default) == IF k \in DOMAIN d THEN d[k] ELSE default

\* Python truthiness of an Optional[str]
Truthy(s) == s # None /\ s # ""

NodeFields ==
    {"id", "label", "type", "x", "y", "width", "height", "tags"}

\* Node(**kwargs): the constructor fills absent fields with the class
\* defaults and ignores keys that are not fields.  The id is supplied by the
\* caller of this operator (the default factory's fresh id when the caller of
\* the code gave none).
NodeOf(d, gen_id) ==
    [id |-> Get(d, "id", gen_id),
     label |-> Get(d, "label", DefaultLabel),
     type |-> Get(d, "type", DefaultType),
     x |-> Get(d, "x", DefaultX),
     y |-> Get(d, "y", DefaultY),
     width |-> Get(d, "width", DefaultWidth),
     height |-> Get(d, "height", DefaultHeight),
     tags |-> Get(d, "tags", <<>>)]

\* Node.model_dump(): a fresh dict of every field (the tags list is copied).
NodeDump(n) == [f \in NodeFields |-> n[f]]

\* Edge.convert_legacy_fields: from / from_node -> source, to / to_node ->
\* target, each only when the canonical key is absent (the legacy key is
\* popped only when it is used).
LegacySource(d) ==
    IF "from" \in DOMAIN d /\ "source" \notin DOMAIN d
    THEN Put(Pop(d, "from"), "source", d["from"])
    ELSE d

LegacySourceNode(d) ==
    IF "from_node" \in DOMAIN d /\ "source" \notin DOMAIN d
    THEN Put(Pop(d, "from_node"), "source", d["from_node"])
    ELSE d

LegacyTarget(d) ==
    IF "to" \in DOMAIN d /\ "target" \notin DOMAIN d
    THEN Put(Pop(d, "to"), "target", d["to"])
    ELSE d

LegacyTargetNode(d) ==
    IF "to_node" \in DOMAIN d /\ "target" \notin DOMAIN d
    THEN Put(Pop(d, "to_node"), "target", d["to_node"])
    ELSE d

convert_legacy_fields(d) ==
    LegacyTargetNode(LegacyTarget(LegacySourceNode(LegacySource(d))))

\* Edge(**kwargs) after convert_legacy_fields; source and target are required.
EdgeOf(d0, gen_id) ==
    LET d == convert_legacy_fields(d0) IN
    [id |-> Get(d, "id", gen_id),
     source |-> d["source"],
     target |-> d["target"],
     label |-> Get(d, "label", ""),
     source_side |-> Get(d, "source_side", None),
     target_side |-> Get(d, "target_side", None)]

\* an edge dict that never carries the connection sides
EdgeToJsonNoSides(e) ==
    [id |-> e.id, source |-> e.source, target |-> e.target, label |-> e.label]

\* Edge.to_json_dict(): the sides are written only when they are truthy.
EdgeToJson(e) ==
    [k \in {"id", "source", "target", "label"}
            \cup (IF Truthy(e.source_side) THEN {"source_side"} ELSE {})
            \cup (IF Truthy(e.target_side) THEN {"target_side"} ELSE {})
        |-> e[k]]

\* datetime.isoformat() and datetime.fromisoformat()
IsoFormat(t) == <<"iso", t>>

FromIsoFormat(s) == s[2]

\* Diagram.to_json_dict()
ToJsonDict(d) ==
    [id |-> d.id,
     name |-> d.name,
     nodes |-> [i \in 1..Len(d.nodes) |-> NodeDump(d.nodes[i])],
     edges |-> [i \in 1..Len(d.edges) |-> EdgeToJson(d.edges[i])],
     metadata |-> [created_at |-> IsoFormat(d.metadata.created_at),
                   updated_at |-> IsoFormat(d.metadata.updated_at),
                   grid_size |-> d.metadata.grid_size,
                   show_grid |-> d.metadata.show_grid]]

\* Diagram.from_json_dict(data) for a dict that carries id, name, nodes,
\* edges and metadata (every dict to_json_dict writes); absent metadata keys
\* take the defaults of from_json_dict.  Nodes and edges carry their ids.
FromJsonDict(j) ==
    [id |-> j.id,
     name |-> j.name,
     nodes |-> [i \in 1..Len(j.nodes) |-> NodeOf(j.nodes[i], NoId)],
     edges |-> [i \in 1..Len(j.edges) |-> EdgeOf(j.edges[i], NoId)],
     metadata |-> [created_at |-> FromIsoFormat(j.metadata.created_at),
                   updated_at |-> FromIsoFormat(j.metadata.updated_at),
                   grid_size |-> Get(j.metadata, "grid_size", DefaultGridSize),
                   show_grid |-> Get(j.metadata, "show_grid", FALSE)]]

\* The live diagram by value: the lists with their references followed.
NodeList == [i \in 1..Len(nodes) |-> nodeObj[nodes[i]]]

EdgeList == [i \in 1..Len(edges) |-> edgeObj[edges[i]]]

CurDiagram ==
    [id |-> dinfo.id, name |-> dinfo.name, nodes |-> NodeList,
     edges |-> EdgeList, metadata |-> dinfo.metadata]

\* ------------------------------------------------------- index management

\* _rebuild_indexes, node part: a later node of the list overwrites an
\* earlier one with the same id.
RebuildNodeIndex(ns, heap) ==
    [id \in {heap[ns[i]].id : i \in 1..Len(ns)} |->
        ns[Max({i \in 1..Len(ns) : heap[ns[i]].id = id})]]

RebuildTagIndex(ns, heap) ==
    [t \in UNION {Range(heap[ns[i]].tags) : i \in 1..Len(ns)} |->
        {heap[ns[i]].id : i \in {k \in 1..Len(ns) : t \in Range(heap[ns[k]].tags)}}]

RebuildTypeIndex(ns, heap) ==
    [t \in {heap[ns[i]].type : i \in 1..Len(ns)} |->
        {heap[ns[i]].id : i \in {k \in 1..Len(ns) : heap[ns[k]].type = t}}]

RebuildEdgeIndex(es, heap) ==
    [id \in {heap[es[i]].id : i \in 1..Len(es)} |->
        es[Max({i \in 1..Len(es) : heap[es[i]].id = id})]]

RebuildEdgesByNode(es, heap) ==
    [n \in {heap[es[i]].source : i \in 1..Len(es)}
            \cup {heap[es[i]].target : i \in 1..Len(es)} |->
        {heap[es[i]].id : i \in {k \in 1..Len(es) :
            heap[es[k]].source = n \/ heap[es[k]].target = n}}]

\* _index_node(node) on the tag and type indexes
IndexNodeTags(tix, n) == AddAll(tix, Range(n.tags), n.id)

IndexNodeType(yix, n) == AddTo(yix, n.type, n.id)

\* _unindex_node(node) on the tag and type indexes
UnindexNodeTags(tix, n) == DiscardAll(tix, Range(n.tags), n.id)

UnindexNodeType(yix, n) == DiscardFrom(yix, n.type, n.id)

\* _index_edge(edge) and _unindex_edge(edge) on _edges_by_node
IndexEdgeEnds(ebn, e) == AddTo(AddTo(ebn, e.source, e.id), e.target, e.id)

UnindexEdgeEnds(ebn, e) == DiscardFrom(DiscardFrom(ebn, e.source, e.id), e.target, e.id)

\* the objects still referenced by the list or the by-id index
Live(list, index) == Range(list) \cup Range(index)

\* --------------------------------------------------------------- history

\* a history that grows without trimming
PushHistoryNoTrim(h, snapshot) == Append(h, snapshot)

\* a history that, once full, gives up its newest entry instead of its oldest
PushHistoryNewestOut(h, snapshot) ==
    IF Len(h) >= max_history THEN h ELSE Append(h, snapshot)

\* _save_to_history on the history list: append, then drop the oldest entry
\* when the list is longer than max_history.
PushHistory(h, snapshot) ==
    LET h1 == Append(h, snapshot) IN
    IF Len(h1) > max_history THEN Tail(h1) ELSE h1

\* a redo stack that survives a new mutation
KeepFuture(f) == f

\* _save_to_history on the future list
ClearFuture(f) == <<>>


\* ----------------------------------------------------------------- layout
\* The layout functions take the node list (and the edge list) and move the
\* nodes in place; here they map the list of node records to the new list.

\* int(n ** 0.5)
Isqrt(n) == Max({r \in 0..n : r * r <= n})

\* a column count without the lower limit of 3
AutoColumnsNoFloor(n) == Isqrt(n) + 1

\* columns = max(3, int(len(nodes) ** 0.5) + 1)
AutoColumns(n) == IF Isqrt(n) + 1 > 3 THEN Isqrt(n) + 1 ELSE 3

\* grid_layout(nodes, spacing_x, spacing_y, start_x, start_y, columns)
grid_layout(ns, spacing_x, spacing_y, start_x, start_y, columns) ==
    [i \in 1..Len(ns) |->
        [ns[i] EXCEPT !.x = start_x + ((i - 1) % columns) * spacing_x,
                      !.y = start_y + ((i - 1) \div columns) * spacing_y]]

\* children[id]: the targets of the edges leaving id whose two ends are
\* nodes of the list, in edge order
ChildrenOf(id, es, ids) ==
    LET out == SelectSeq(es, LAMBDA e : e.source = id /\ e.source \in ids
                                        /\ e.target \in ids)
    IN [i \in 1..Len(out) |-> out[i].target]

\* the breadth-first loop of tree_layout: queue of <<id, level>> pairs
RECURSIVE TreeLevels(_, _, _, _)
TreeLevels(queue, levels, es, ids) ==
    IF queue = <<>> THEN levels
    ELSE LET id == Head(queue)[1]
             level == Head(queue)[2]
             kids == ChildrenOf(id, es, ids)
         IN IF id \in DOMAIN levels
            THEN TreeLevels(Tail(queue), levels, es, ids)
            ELSE TreeLevels(Tail(queue) \o [i \in 1..Len(kids) |-> <<kids[i], level + 1>>],
                            Put(levels, id, level), es, ids)

\* roots that are always the first node alone
TreeRootsFirstOnly(ns, es) == <<ns[1].id>>

\* roots: the nodes without an incoming edge, else the first node
TreeRoots(ns, es) ==
    LET ids == {ns[i].id : i \in 1..Len(ns)}
        has_parent == {es[i].target : i \in {k \in 1..Len(es) :
                            es[k].source \in ids /\ es[k].target \in ids}}
        free == SelectSeq(ns, LAMBDA n : n.id \notin has_parent)
    IN IF free # <<>> THEN [i \in 1..Len(free) |-> free[i].id] ELSE <<ns[1].id>>

\* levels[id] with the disconnected nodes at level 0
LevelOf(ns, es) ==
    LET ids == {ns[i].id : i \in 1..Len(ns)}
        roots == TreeRoots(ns, es)
        found == TreeLevels([i \in 1..Len(roots) |-> <<roots[i], 0>>], EmptyMap, es, ids)
    IN [id \in ids |-> IF id \in DOMAIN found THEN found[id] ELSE 0]

\* a tree_layout whose count of the nodes placed on a level is never raised
tree_layout_not_counting(ns, es, spacing_x, spacing_y, start_x, start_y, orientation) ==
    IF ns = <<>> THEN ns
    ELSE LET levels == LevelOf(ns, es)
             idx(i) == 0
         IN [i \in 1..Len(ns) |->
                IF orientation = "vertical"
                THEN [ns[i] EXCEPT !.x = start_x + idx(i) * spacing_x,
                                   !.y = start_y + levels[ns[i].id] * spacing_y]
                ELSE [ns[i] EXCEPT !.x = start_x + levels[ns[i].id] * spacing_x,
                                   !.y = start_y + idx(i) * spacing_y]]

\* tree_layout(nodes, edges, spacing_x, spacing_y, start_x, start_y, orientation)
tree_layout(ns, es, spacing_x, spacing_y, start_x, start_y, orientation) ==
    IF ns = <<>> THEN ns
    ELSE LET levels == LevelOf(ns, es)
             idx(i) == Cardinality({j \in 1..(i - 1) : levels[ns[j].id] = levels[ns[i].id]})
         IN [i \in 1..Len(ns) |->
                IF orientation = "vertical"
                THEN [ns[i] EXCEPT !.x = start_x + idx(i) * spacing_x,
                                   !.y = start_y + levels[ns[i].id] * spacing_y]
                ELSE [ns[i] EXCEPT !.x = start_x + levels[ns[i].id] * spacing_x,
                                   !.y = start_y + idx(i) * spacing_y]]

\* targets = [n for n in nodes if n.id in node_ids], as list positions
TargetsOf(ns, node_ids) == {i \in 1..Len(ns) : ns[i].id \in Range(node_ids)}

Alignments == {"left", "right", "top", "bottom", "center_h", "center_v"}

RECURSIVE SumOver(_, _)
SumOver(S, f) ==
    IF S = {} THEN 0
    ELSE LET i == CHOOSE x \in S : TRUE IN f[i] + SumOver(S \ {i}, f)

\* the arithmetic of align_nodes is exact on the integers when the centre
\* of the targets is integral
AlignExact(ns, node_ids, alignment) ==
    LET T == TargetsOf(ns, node_ids) IN
    IF Cardinality(T) < 2 THEN TRUE
    ELSE IF alignment = "center_h"
    THEN /\ \A i \in T : ns[i].width % 2 = 0
         /\ SumOver(T, [i \in T |-> ns[i].x + ns[i].width \div 2]) % Cardinality(T) = 0
    ELSE IF alignment = "center_v"
    THEN /\ \A i \in T : ns[i].height % 2 = 0
         /\ SumOver(T, [i \in T |-> ns[i].y + ns[i].height \div 2]) % Cardinality(T) = 0
    ELSE TRUE

\* align_nodes(nodes, node_ids, alignment): the returned flag
align_ok(ns, node_ids, alignment) ==
    Cardinality(TargetsOf(ns, node_ids)) >= 2 /\ alignment \in Alignments

\* align_nodes(nodes, node_ids, alignment): the node list afterwards
align_nodes(ns, node_ids, alignment) ==
    LET T == TargetsOf(ns, node_ids)
        k == Cardinality(T)
        min_x == Min({ns[i].x : i \in T})
        max_x == Max({ns[i].x + ns[i].width : i \in T})
        min_y == Min({ns[i].y : i \in T})
        max_y == Max({ns[i].y + ns[i].height : i \in T})
        center_x == SumOver(T, [i \in T |-> ns[i].x + ns[i].width \div 2]) \div k
        center_y == SumOver(T, [i \in T |-> ns[i].y + ns[i].height \div 2]) \div k
    IN IF k < 2 THEN ns
       ELSE [i \in 1..Len(ns) |->
            IF i \notin T THEN ns[i]
            ELSE CASE alignment = "left" -> [ns[i] EXCEPT !.x = min_x]
                   [] alignment = "right" -> [ns[i] EXCEPT !.x = max_x - ns[i].width]
                   [] alignment = "top" -> [ns[i] EXCEPT !.y = min_y]
                   [] alignment = "bottom" -> [ns[i] EXCEPT !.y = max_y - ns[i].height]
                   [] alignment = "center_h" ->
                        [ns[i] EXCEPT !.x = center_x - ns[i].width \div 2]
                   [] alignment = "center_v" ->
                        [ns[i] EXCEPT !.y = center_y - ns[i].height \div 2]
                   [] OTHER -> ns[i]]

\* list.sort(key=...): stable, by insertion; s is a sequence of list
\* positions and key maps a position to its sort key
RECURSIVE InsertSorted(_, _, _)
InsertSorted(s, p, key) ==
    IF s = <<>> THEN <<p>>
    ELSE IF key[Head(s)] <= key[p]
         THEN <<Head(s)>> \o InsertSorted(Tail(s), p, key)
         ELSE <<p>> \o s

RECURSIVE SortedBy(_, _)
SortedBy(s, key) ==
    IF s = <<>> THEN <<>>
    ELSE InsertSorted(SortedBy(SubSeq(s, 1, Len(s) - 1), key), s[Len(s)], key)

\* the target positions of the list in list order
TargetSeq(ns, node_ids) ==
    LET pos == [i \in 1..Len(ns) |-> i]
    IN SelectSeq(pos, LAMBDA i : ns[i].id \in Range(node_ids))

Axes == {"horizontal", "vertical"}

\* distribute_nodes(nodes, node_ids, axis): the returned flag
distribute_ok(ns, node_ids, axis) ==
    Len(TargetSeq(ns, node_ids)) >= 3 /\ axis \in Axes

\* the spacing (max - min) / (len(targets) - 1) is exact on the integers
DistributeExact(ns, node_ids, axis) ==
    LET t == TargetSeq(ns, node_ids)
        c == IF axis = "horizontal" THEN [i \in 1..Len(ns) |-> ns[i].x]
                                    ELSE [i \in 1..Len(ns) |-> ns[i].y]
        vals == {c[t[i]] : i \in 1..Len(t)}
    IN IF Len(t) < 3 \/ axis \notin Axes THEN TRUE
       ELSE (Max(vals) - Min(vals)) % (Len(t) - 1) = 0

\* a distribution that takes the targets in list order, without sorting them
distribute_nodes_unsorted(ns, node_ids, axis) ==
    LET t == TargetSeq(ns, node_ids)
        c == IF axis = "horizontal" THEN [i \in 1..Len(ns) |-> ns[i].x]
                                    ELSE [i \in 1..Len(ns) |-> ns[i].y]
        sorted == t
        k == Len(sorted)
        lo == c[sorted[1]]
        hi == c[sorted[k]]
        spacing == (hi - lo) \div (k - 1)
        rank(i) == CHOOSE r \in 1..k : sorted[r] = i
    IN IF k < 3 \/ axis \notin Axes THEN ns
       ELSE [i \in 1..Len(ns) |->
            IF i \notin Range(t) THEN ns[i]
            ELSE IF axis = "horizontal"
                 THEN [ns[i] EXCEPT !.x = lo + (rank(i) - 1) * spacing]
                 ELSE [ns[i] EXCEPT !.y = lo + (rank(i) - 1) * spacing]]

\* distribute_nodes(nodes, node_ids, axis): the node list afterwards
distribute_nodes(ns, node_ids, axis) ==
    LET t == TargetSeq(ns, node_ids)
        c == IF axis = "horizontal" THEN [i \in 1..Len(ns) |-> ns[i].x]
                                    ELSE [i \in 1..Len(ns) |-> ns[i].y]
        sorted == SortedBy(t, c)
        k == Len(sorted)
        lo == c[sorted[1]]
        hi == c[sorted[k]]
        spacing == (hi - lo) \div (k - 1)
        rank(i) == CHOOSE r \in 1..k : sorted[r] = i
    IN IF k < 3 \/ axis \notin Axes THEN ns
       ELSE [i \in 1..Len(ns) |->
            IF i \notin Range(t) THEN ns[i]
            ELSE IF axis = "horizontal"
                 THEN [ns[i] EXCEPT !.x = lo + (rank(i) - 1) * spacing]
                 ELSE [ns[i] EXCEPT !.y = lo + (rank(i) - 1) * spacing]]


\* ------------------------------------------------------------------ inputs

\* An optional keyword argument: Some(v), or NoneV for Python's None.
Some(v) == <<v>>

NoneV == <<>>

\* add_node(**kwargs): the keyword bags the callers pass
AddNodeInputs ==
    IF scope # "wide" THEN {[label |-> DefaultLabel]}
    ELSE {[label |-> DefaultLabel], [tags |-> <<"t1">>],
          [type |-> "service", tags |-> <<"t2">>]}
         \cup {[id |-> k] : k \in NodeIds}

\* update_node(node_id, **kwargs)
UpdateNodeInputs ==
    IF scope # "wide" THEN {[x |-> Some(5)]} ELSE
    {[x |-> Some(5)],
     [label |-> Some("Renamed"), type |-> NoneV, colour |-> Some("red")],
     [tags |-> Some(<<"t1">>)],
     [tags |-> Some(<<"t1", "t1">>)],
     [tags |-> Some(<<>>), type |-> Some("service")]}
    \cup {[id |-> Some(k)] : k \in NodeIds}

Sides == {None, "", "top", "left"}

\* add_edge(source, target, from_node, to_node, label, source_side, target_side)
AddEdgeInputs ==
    IF scope # "wide"
    THEN {[source |-> 1, target |-> 1, from_node |-> NoId, to_node |-> NoId,
           label |-> "", source_side |-> "", target_side |-> "top"]} ELSE
    {[source |-> s, target |-> t, from_node |-> NoId, to_node |-> NoId,
      label |-> "", source_side |-> None, target_side |-> None] :
        s \in {NoId} \cup NodeIds, t \in {NoId} \cup NodeIds}
    \cup {[source |-> NoId, target |-> NoId, from_node |-> 1, to_node |-> t,
           label |-> "calls", source_side |-> "top", target_side |-> ""] : t \in {2}}

\* update_edge(edge_id, **kwargs)
UpdateEdgeInputs ==
    IF scope # "wide" THEN {} ELSE
    {[label |-> Some("Renamed"), weight |-> Some(3)],
     [source_side |-> Some(""), target_side |-> Some("left"), label |-> NoneV],
     [target |-> Some(1)]}
    \cup {[source |-> Some(k)] : k \in NodeIds}

\* update_diagram_info(name, grid_size, show_grid)
DiagramInfoInputs ==
    IF scope # "wide"
    THEN {[name |-> Some("Renamed"), grid_size |-> NoneV, show_grid |-> NoneV]} ELSE
    {[name |-> Some("Renamed"), grid_size |-> NoneV, show_grid |-> NoneV],
     [name |-> NoneV, grid_size |-> Some(10), show_grid |-> Some(FALSE)],
     [name |-> NoneV, grid_size |-> NoneV, show_grid |-> NoneV]}

\* bulk_update_tags(node_ids, add_tags, remove_tags)
BulkTagInputs ==
    IF scope # "wide" THEN {} ELSE
    {[node_ids |-> ids, add_tags |-> a, remove_tags |-> r] :
        ids \in {<<2, 1>>},
        a \in {NoneV, Some(<<"t2">>)},
        r \in {NoneV, Some(<<"t1">>)}}

\* auto_layout(strategy); "force" needs real arithmetic and is not offered
Strategies == IF scope # "wide" THEN {} ELSE {"grid", "tree", "spiral"}

\* align_nodes(node_ids, alignment) and distribute_nodes(node_ids, axis)
NodeIdLists == {<<1, 2>>}

AlignInputs == IF scope # "wide" THEN {} ELSE {"left", "bottom", "center_h", "middle"}

AxisInputs == IF scope # "wide" THEN {} ELSE {"horizontal", "vertical", "diagonal"}

\* the ids the callers name
CalledNodeIds == IF scope # "wide" THEN {1} ELSE NodeIds

CalledEdgeIds == IF scope # "wide" THEN {} ELSE EdgeIds

\* --------------------------------------------------------- call bookkeeping

\* _notify_change(): the callbacks are called in the order of registration,
\* and the exception of one that raises leaves the loop.  Invoked is the number
\* of callbacks called, Escapes tells whether an exception left the loop.
Raising == {i \in 1..Len(callbacks) : callbacks[i] = "raises"}

Invoked == IF Raising = {} THEN Len(callbacks) ELSE Min(Raising)

Escapes == Raising # {}

\* The record kept of the last call.  ok: the call reached its return of the
\* success value; raised: it raised of its own; notified: the number of
\* _notify_change() calls it made; invoked: the number of callbacks those
\* called; escaped: the exception of a callback left the call in place of
\* the return value.
Call(op, key, kw, ok, raised, notified) ==
    [op |-> op, key |-> key, kw |-> kw, ok |-> ok, raised |-> raised,
     notified |-> notified,
     invoked |-> IF notified > 0 THEN Invoked ELSE 0,
     escaped |-> notified > 0 /\ Escapes]

NoArgs == EmptyMap

\* the streak of mutations kept for the undo/redo symmetry: at most this many
TrailLen == max_history + 1

\* restored: the snapshot name when the last mutation of the streak was a
\* restore_snapshot
TrailReset == [states |-> <<>>, undos |-> 0, redos |-> 0, restored |-> None]

TrailMutation(pre, post) ==
    LET base == IF trail.states # <<>> /\ trail.undos = 0 /\ trail.redos = 0
                THEN trail.states ELSE <<pre>>
        ext == Append(base, post)
    IN [states |-> IF Len(ext) > TrailLen + 1 THEN Tail(ext) ELSE ext,
        undos |-> 0, redos |-> 0, restored |-> None]

TrailUndo ==
    IF trail.states # <<>> /\ trail.redos = 0 /\ trail.undos < Len(trail.states) - 1
    THEN [trail EXCEPT !.undos = @ + 1]
    ELSE TrailReset

TrailRedo ==
    IF trail.states # <<>> /\ trail.undos >= 1 /\ trail.redos < trail.undos
    THEN [trail EXCEPT !.redos = @ + 1]
    ELSE TrailReset

\* a failing call that nevertheless marks the store as changed
UntouchedButDirty(op, key, kw, raised) ==
    /\ dirty' = TRUE
    /\ UNCHANGED <<active, dinfo, nodes, edges, nodeObj, edgeObj, node_index,
                   edge_index, tag_index, type_index, edges_by_node, history,
                   future, snapshots>>
    /\ lastOp' = Call(op, NoId, NoArgs, FALSE, raised, 0)

\* a failing call that nevertheless invokes the change callbacks
UntouchedButNotified(op, key, kw, raised) ==
    /\ UNCHANGED <<store, snapshots>>
    /\ lastOp' = Call(op, NoId, NoArgs, FALSE, raised, 1)

\* A call that raises, or returns its failure value, before it changed anything.
Untouched(op, key, kw, raised) ==
    /\ UNCHANGED <<store, snapshots>>
    /\ lastOp' = Call(op, NoId, NoArgs, FALSE, raised, 0)

NoEffect(op, key, kw, raised) ==
    /\ Untouched(op, key, kw, raised)
    /\ trail' = TrailReset

\* self._diagram = <a freshly built Diagram>, then _rebuild_indexes()
LoadDiagram(d) ==
    /\ active' = TRUE
    /\ dinfo' = [id |-> d.id, name |-> d.name, metadata |-> d.metadata]
    /\ nodes' = [i \in 1..Len(d.nodes) |-> i]
    /\ nodeObj' = [i \in 1..Len(d.nodes) |-> d.nodes[i]]
    /\ edges' = [i \in 1..Len(d.edges) |-> i]
    /\ edgeObj' = [i \in 1..Len(d.edges) |-> d.edges[i]]
    /\ node_index' = RebuildNodeIndex(nodes', nodeObj')
    /\ tag_index' = RebuildTagIndex(nodes', nodeObj')
    /\ type_index' = RebuildTypeIndex(nodes', nodeObj')
    /\ edge_index' = RebuildEdgeIndex(edges', edgeObj')
    /\ edges_by_node' = RebuildEdgesByNode(edges', edgeObj')

\* a mutation that pushes no snapshot and keeps the redo stack
SaveNothing == UNCHANGED <<history, future>>

\* _save_to_history() of an active diagram
SaveToHistory ==
    /\ history' = PushHistory(history, ToJsonDict(CurDiagram))
    /\ future' = ClearFuture(future)

\* the ids a default factory will not produce: those in use
UsedNodeIds == {nodeObj[r].id : r \in DOMAIN nodeObj} \cup DOMAIN node_index

UsedEdgeIds == {edgeObj[r].id : r \in DOMAIN edgeObj} \cup DOMAIN edge_index

\* the diagram ids: uuid-generated, never the id of a diagram still held
DiagramIds == {1, 2, 3}

UsedDiagramIds ==
    (IF active THEN {dinfo.id} ELSE {})
    \cup {snapshots[n].diagram.id : n \in DOMAIN snapshots}


\* ------------------------------------------------------------------- Init

\* the placeholder read while no diagram is open
NoDiagramInfo ==
    [id |-> 0, name |-> "",
     metadata |-> [created_at |-> 0, updated_at |-> 0,
                   grid_size |-> DefaultGridSize, show_grid |-> TRUE]]

\* no function of the core package has been called
NotApplied == [fn |-> "none"]

\* the module as imported: the Event unset, the broadcaster task not created,
\* no client connected, no callback call made, nothing sent
NotServing ==
    [event |-> FALSE, at |-> "created", connections |-> {}, sending |-> {},
     failed |-> {}, message |-> None, invoked |-> 0, announced |-> 0,
     coalesced |-> 0, overlapped |-> {}]

\* the fields of a DiagramManager after __init__, for the second manager
NewManager ==
    [active |-> FALSE,
     diagram |-> [id |-> NoDiagramInfo.id, name |-> NoDiagramInfo.name,
                  nodes |-> <<>>, edges |-> <<>>,
                  metadata |-> NoDiagramInfo.metadata],
     history |-> <<>>, future |-> <<>>, dirty |-> FALSE, file_path |-> None,
     callbacks |-> <<>>]

\* DiagramManager.__init__ of both managers (and the empty class-level
\* _snapshots)
Init ==
    /\ active = FALSE
    /\ dinfo = NoDiagramInfo
    /\ nodes = <<>>
    /\ edges = <<>>
    /\ nodeObj = EmptyMap
    /\ edgeObj = EmptyMap
    /\ node_index = EmptyMap
    /\ edge_index = EmptyMap
    /\ tag_index = EmptyMap
    /\ type_index = EmptyMap
    /\ edges_by_node = EmptyMap
    /\ history = <<>>
    /\ future = <<>>
    /\ dirty = FALSE
    /\ file_path = None
    /\ snapshots = EmptyMap
    /\ peer = NewManager
    /\ callbacks = <<>>
    /\ applied = NotApplied
    /\ bridge = NotServing
    /\ lastOp = Call("init", NoId, NoArgs, TRUE, FALSE, 0)
    /\ trail = TrailReset
    /\ steps = 0
    /\ scope \in {"wide", "deep", "env"}

\* ------------------------------------------------------- file operations

\* Diagram(name=name): a fresh id, empty lists, default metadata
EmptyDiagram(id, name) ==
    [id |-> id, name |-> name, nodes |-> <<>>, edges |-> <<>>,
     metadata |-> [created_at |-> 0, updated_at |-> 0,
                   grid_size |-> DefaultGridSize, show_grid |-> TRUE]]

\* a new_diagram that also empties the table of named snapshots
new_diagram_dropping_snapshots ==
    /\ DiagramIds \ UsedDiagramIds # {}
    /\ LoadDiagram(EmptyDiagram(Min(DiagramIds \ UsedDiagramIds), DefaultName))
    /\ history' = <<>>
    /\ future' = <<>>
    /\ dirty' = FALSE
    /\ file_path' = None
    /\ snapshots' = EmptyMap
    /\ lastOp' = Call("new_diagram", NoId, NoArgs, TRUE, FALSE, 1)
    /\ trail' = TrailReset

\* a new_diagram that leaves the undo stack as it was
new_diagram_keeping_history ==
    /\ DiagramIds \ UsedDiagramIds # {}
    /\ LoadDiagram(EmptyDiagram(Min(DiagramIds \ UsedDiagramIds), DefaultName))
    /\ UNCHANGED history
    /\ future' = <<>>
    /\ dirty' = FALSE
    /\ file_path' = None
    /\ UNCHANGED snapshots
    /\ lastOp' = Call("new_diagram", NoId, NoArgs, TRUE, FALSE, 1)
    /\ trail' = TrailReset

new_diagram ==
    /\ DiagramIds \ UsedDiagramIds # {}
    /\ LoadDiagram(EmptyDiagram(Min(DiagramIds \ UsedDiagramIds), DefaultName))
    /\ history' = <<>>
    /\ future' = <<>>
    /\ dirty' = FALSE
    /\ file_path' = None
    /\ UNCHANGED snapshots
    /\ lastOp' = Call("new_diagram", NoId, NoArgs, TRUE, FALSE, 1)
    /\ trail' = TrailReset

\* The files on disk: one diagram file, written in the older format (an edge
\* with from/to, a node that leaves most fields out, metadata without
\* show_grid).
Files ==
    [f \in {"d1.json"} |->
        [id |-> 4, name |-> "Loaded",
         nodes |-> <<[id |-> 1, label |-> "Loaded", tags |-> <<"t1">>]>>,
         edges |-> <<[id |-> 1, from |-> 1, to |-> 1, target_side |-> "top"]>>,
         metadata |-> [created_at |-> IsoFormat(0), updated_at |-> IsoFormat(0),
                       grid_size |-> 10]]]

\* the paths the callers name
Paths == IF scope = "env" THEN {"d1.json", "missing.json"} ELSE {}

open_diagram(path) ==
    IF path \notin DOMAIN Files
    THEN /\ NoEffect("open_diagram", NoId, [file_path |-> path], TRUE)
         /\ UNCHANGED file_path
    ELSE /\ LoadDiagram(FromJsonDict(Files[path]))
         /\ file_path' = path
         /\ history' = <<>>
         /\ future' = <<>>
         /\ dirty' = FALSE
         /\ UNCHANGED snapshots
         /\ lastOp' = Call("open_diagram", NoId, [file_path |-> path],
                           TRUE, FALSE, 1)
         /\ trail' = TrailReset

\* ----------------------------------------------------------------- undo/redo

undo ==
    IF history = <<>> \/ ~active
    THEN Untouched("undo", NoId, NoArgs, FALSE) /\ trail' = TrailUndo
    ELSE /\ future' = Append(future, ToJsonDict(CurDiagram))
         /\ history' = SubSeq(history, 1, Len(history) - 1)
         /\ LoadDiagram(FromJsonDict(history[Len(history)]))
         /\ dirty' = TRUE
         /\ UNCHANGED snapshots
         /\ lastOp' = Call("undo", NoId, NoArgs, TRUE, FALSE, 1)
         /\ trail' = TrailUndo

redo ==
    IF future = <<>> \/ ~active
    THEN Untouched("redo", NoId, NoArgs, FALSE) /\ trail' = TrailRedo
    ELSE /\ history' = Append(history, ToJsonDict(CurDiagram))
         /\ future' = SubSeq(future, 1, Len(future) - 1)
         /\ LoadDiagram(FromJsonDict(future[Len(future)]))
         /\ dirty' = TRUE
         /\ UNCHANGED snapshots
         /\ lastOp' = Call("redo", NoId, NoArgs, TRUE, FALSE, 1)
         /\ trail' = TrailRedo


\* ---------------------------------------------------------- node operations

\* what every successful incremental mutation does around its own change
Committed(op, key, kw, pre) ==
    /\ dirty' = TRUE
    /\ UNCHANGED <<active, snapshots>>
    /\ lastOp' = Call(op, key, kw, TRUE, FALSE, 1)
    /\ trail' = TrailMutation(pre, CurDiagram')

add_node(kw) ==
    IF ~active THEN NoEffect("add_node", NoId, kw, TRUE)
    ELSE /\ Len(nodes) < MaxNodes
         /\ "id" \in DOMAIN kw \/ NodeIds \ UsedNodeIds # {}
         /\ LET gen == IF "id" \in DOMAIN kw THEN NoId ELSE Min(NodeIds \ UsedNodeIds)
                node == NodeOf(kw, gen)
                r == NewRef(DOMAIN nodeObj)
            IN /\ SaveToHistory
               /\ nodes' = Append(nodes, r)
               /\ node_index' = Put(node_index, node.id, r)
               /\ nodeObj' = Restrict(Put(nodeObj, r, node), Live(nodes', node_index'))
               /\ tag_index' = IndexNodeTags(tag_index, node)
               /\ type_index' = IndexNodeType(type_index, node)
               /\ UNCHANGED <<dinfo, edges, edgeObj, edge_index, edges_by_node>>
               /\ Committed("add_node", node.id, kw, CurDiagram)

\* an update that also writes the None of an argument left unset
ApplyUpdateNoneToo(obj, kw) ==
    [f \in DOMAIN obj |->
        IF f \in DOMAIN kw THEN (IF kw[f] # NoneV THEN kw[f][1] ELSE None) ELSE obj[f]]

\* for key, value in kwargs.items():
\*     if value is not None and hasattr(obj, key): setattr(obj, key, value)
ApplyUpdate(obj, kw) ==
    [f \in DOMAIN obj |-> IF f \in DOMAIN kw /\ kw[f] # NoneV THEN kw[f][1] ELSE obj[f]]

\* update_node's migration of the tag index: the delta of the tag sets
MigrateTags(tix, node_id, old_tags, new_tags) ==
    IF old_tags = new_tags THEN tix
    ELSE AddAll(DiscardAll(tix, old_tags \ new_tags, node_id),
                new_tags \ old_tags, node_id)

\* update_node's migration of the type index
MigrateType(yix, node_id, old_type, new_type) ==
    IF old_type = new_type THEN yix
    ELSE AddTo(DiscardFrom(yix, old_type, node_id), new_type, node_id)

update_node(node_id, kw) ==
    IF ~active THEN NoEffect("update_node", node_id, kw, TRUE)
    ELSE IF node_id \notin DOMAIN node_index
    THEN NoEffect("update_node", node_id, kw, FALSE)
    ELSE LET r == node_index[node_id]
             old == nodeObj[r]
             new == ApplyUpdate(old, kw)
         IN /\ SaveToHistory
            /\ nodeObj' = [nodeObj EXCEPT ![r] = new]
            /\ tag_index' = MigrateTags(tag_index, node_id, Range(old.tags), Range(new.tags))
            /\ type_index' = MigrateType(type_index, node_id, old.type, new.type)
            /\ UNCHANGED <<dinfo, nodes, edges, edgeObj, node_index, edge_index,
                           edges_by_node>>
            /\ Committed("update_node", node_id, kw, CurDiagram)

\* delete_node's loop over the copied set of connected edge ids; st holds the
\* edge list and the two edge indexes
RECURSIVE CascadeEdges(_, _)
CascadeEdges(ids, st) ==
    IF ids = {} THEN st
    ELSE LET edge_id == CHOOSE x \in ids : TRUE
             rest == ids \ {edge_id}
         IN IF edge_id \notin DOMAIN st.edge_index THEN CascadeEdges(rest, st)
            ELSE LET edge == edgeObj[st.edge_index[edge_id]]
                 IN CascadeEdges(rest,
                        [edges |-> SelectSeq(st.edges, LAMBDA e : edgeObj[e].id # edge_id),
                         edge_index |-> Pop(st.edge_index, edge.id),
                         edges_by_node |-> UnindexEdgeEnds(st.edges_by_node, edge)])

\* the node list of delete_node: [n for n in nodes if n.id != node_id]
NodesWithout(ns, heap, node_id) == SelectSeq(ns, LAMBDA r : heap[r].id # node_id)

delete_node(node_id) ==
    IF ~active THEN NoEffect("delete_node", node_id, NoArgs, TRUE)
    ELSE IF node_id \notin DOMAIN node_index
    THEN NoEffect("delete_node", node_id, NoArgs, FALSE)
    ELSE LET node == nodeObj[node_index[node_id]]
             connected == Get(edges_by_node, node_id, {})
             st == CascadeEdges(connected,
                       [edges |-> edges, edge_index |-> edge_index,
                        edges_by_node |-> edges_by_node])
         IN /\ SaveToHistory
            /\ nodes' = NodesWithout(nodes, nodeObj, node_id)
            /\ node_index' = Pop(node_index, node.id)
            /\ tag_index' = UnindexNodeTags(tag_index, node)
            /\ type_index' = UnindexNodeType(type_index, node)
            /\ edges' = st.edges
            /\ edge_index' = st.edge_index
            /\ edges_by_node' = st.edges_by_node
            /\ nodeObj' = Restrict(nodeObj, Live(nodes', node_index'))
            /\ edgeObj' = Restrict(edgeObj, Live(edges', edge_index'))
            /\ UNCHANGED dinfo
            /\ Committed("delete_node", node_id, NoArgs, CurDiagram)


\* ---------------------------------------------------------- edge operations

\* Python's "a or b" on ids
Either(a, b) == IF a # NoId THEN a ELSE b

\* add_edge's checks, in order: both endpoints given, both in _node_index
AddEdgeAccepts(nix, src, tgt) ==
    /\ src # NoId
    /\ tgt # NoId
    /\ src \in DOMAIN nix
    /\ tgt \in DOMAIN nix

add_edge(a) ==
    LET actual_source == Either(a.source, a.from_node)
        actual_target == Either(a.target, a.to_node)
    IN IF ~active THEN NoEffect("add_edge", NoId, a, TRUE)
       ELSE IF ~AddEdgeAccepts(node_index, actual_source, actual_target)
       THEN NoEffect("add_edge", NoId, a, TRUE)
       ELSE /\ EdgeIds \ UsedEdgeIds # {}
            /\ LET edge == EdgeOf([source |-> actual_source, target |-> actual_target,
                                   label |-> a.label, source_side |-> a.source_side,
                                   target_side |-> a.target_side],
                                  Min(EdgeIds \ UsedEdgeIds))
                   r == NewRef(DOMAIN edgeObj)
               IN /\ SaveToHistory
                  /\ edges' = Append(edges, r)
                  /\ edgeObj' = Put(edgeObj, r, edge)
                  /\ edge_index' = Put(edge_index, edge.id, r)
                  /\ edges_by_node' = IndexEdgeEnds(edges_by_node, edge)
                  /\ UNCHANGED <<dinfo, nodes, nodeObj, node_index, tag_index, type_index>>
                  /\ Committed("add_edge", edge.id, a, CurDiagram)

update_edge(edge_id, kw) ==
    IF ~active THEN NoEffect("update_edge", edge_id, kw, TRUE)
    ELSE IF edge_id \notin DOMAIN edge_index
    THEN NoEffect("update_edge", edge_id, kw, FALSE)
    ELSE LET r == edge_index[edge_id]
         IN /\ SaveToHistory
            /\ edgeObj' = [edgeObj EXCEPT ![r] = ApplyUpdate(edgeObj[r], kw)]
            /\ UNCHANGED <<dinfo, nodes, edges, nodeObj, node_index, edge_index,
                           tag_index, type_index, edges_by_node>>
            /\ Committed("update_edge", edge_id, kw, CurDiagram)

\* the edge list of delete_edge: [e for e in edges if e.id != edge_id]
EdgesWithout(es, heap, edge_id) == SelectSeq(es, LAMBDA r : heap[r].id # edge_id)

delete_edge(edge_id) ==
    IF ~active THEN NoEffect("delete_edge", edge_id, NoArgs, TRUE)
    ELSE IF edge_id \notin DOMAIN edge_index
    THEN NoEffect("delete_edge", edge_id, NoArgs, FALSE)
    ELSE LET edge == edgeObj[edge_index[edge_id]]
         IN /\ SaveToHistory
            /\ edges' = EdgesWithout(edges, edgeObj, edge_id)
            /\ edge_index' = Pop(edge_index, edge.id)
            /\ edges_by_node' = UnindexEdgeEnds(edges_by_node, edge)
            /\ edgeObj' = Restrict(edgeObj, Live(edges', edge_index'))
            /\ UNCHANGED <<dinfo, nodes, nodeObj, node_index, tag_index, type_index>>
            /\ Committed("delete_edge", edge_id, NoArgs, CurDiagram)

\* ------------------------------------------------------------ diagram info

\* "if v is not None: field = v"
OrKeep(v, old) == IF v # NoneV THEN v[1] ELSE old

update_diagram_info(a) ==
    IF ~active THEN NoEffect("update_diagram_info", NoId, a, TRUE)
    ELSE /\ SaveToHistory
         /\ dinfo' = [dinfo EXCEPT
                !.name = OrKeep(a.name, @),
                !.metadata.grid_size = OrKeep(a.grid_size, @),
                !.metadata.show_grid = OrKeep(a.show_grid, @)]
         /\ UNCHANGED <<nodes, edges, nodeObj, edgeObj, node_index, edge_index,
                        tag_index, type_index, edges_by_node>>
         /\ Committed("update_diagram_info", NoId, a, CurDiagram)

\* ---------------------------------------------------------- bulk operations

\* list.remove(x): drops the first occurrence
RECURSIVE RemoveFirst(_, _)
RemoveFirst(s, x) ==
    IF s = <<>> THEN s
    ELSE IF Head(s) = x THEN Tail(s) ELSE <<Head(s)>> \o RemoveFirst(Tail(s), x)

\* "for tag in add_tags" on one node; st holds the node heap and the tag index
RECURSIVE BulkAdd(_, _, _, _)
BulkAdd(tags, r, node_id, st) ==
    IF tags = <<>> THEN st
    ELSE LET tag == Head(tags) IN
         IF tag \in Range(st.heap[r].tags) THEN BulkAdd(Tail(tags), r, node_id, st)
         ELSE BulkAdd(Tail(tags), r, node_id,
                [st EXCEPT !.heap[r].tags = Append(@, tag),
                           !.tix = AddTo(@, tag, node_id)])

\* "for tag in remove_tags" on one node
RECURSIVE BulkRemove(_, _, _, _)
BulkRemove(tags, r, node_id, st) ==
    IF tags = <<>> THEN st
    ELSE LET tag == Head(tags) IN
         IF tag \notin Range(st.heap[r].tags) THEN BulkRemove(Tail(tags), r, node_id, st)
         ELSE BulkRemove(Tail(tags), r, node_id,
                [st EXCEPT !.heap[r].tags = RemoveFirst(@, tag),
                           !.tix = DiscardFrom(@, tag, node_id)])

\* "for node_id in node_ids"; st also counts the nodes appended to updated
RECURSIVE BulkLoop(_, _, _, _)
BulkLoop(node_ids, add_tags, remove_tags, st) ==
    IF node_ids = <<>> THEN st
    ELSE LET node_id == Head(node_ids) IN
         IF node_id \notin DOMAIN node_index
         THEN BulkLoop(Tail(node_ids), add_tags, remove_tags, st)
         ELSE LET r == node_index[node_id]
                  s1 == IF add_tags # NoneV /\ add_tags[1] # <<>>
                        THEN BulkAdd(add_tags[1], r, node_id, st) ELSE st
                  s2 == IF remove_tags # NoneV /\ remove_tags[1] # <<>>
                        THEN BulkRemove(remove_tags[1], r, node_id, s1) ELSE s1
              IN BulkLoop(Tail(node_ids), add_tags, remove_tags,
                          [s2 EXCEPT !.updated = @ + 1])

bulk_update_tags(a) ==
    IF ~active THEN NoEffect("bulk_update_tags", NoId, a, TRUE)
    ELSE LET st == BulkLoop(a.node_ids, a.add_tags, a.remove_tags,
                            [heap |-> nodeObj, tix |-> tag_index, updated |-> 0])
         IN /\ SaveToHistory
            /\ nodeObj' = st.heap
            /\ tag_index' = st.tix
            /\ dirty' = (IF st.updated > 0 THEN TRUE ELSE dirty)
            /\ UNCHANGED <<active, dinfo, nodes, edges, edgeObj, node_index, edge_index,
                           type_index, edges_by_node, snapshots>>
            /\ lastOp' = IF st.updated > 0
                          THEN Call("bulk_update_tags", NoId, a, TRUE, FALSE, 1)
                          ELSE Call("bulk_update_tags", NoId, NoArgs, FALSE, FALSE, 0)
            /\ trail' = IF st.updated > 0 THEN TrailMutation(CurDiagram, CurDiagram')
                        ELSE TrailReset


\* -------------------------------------------------------- layout operations

\* the heap after a layout function moved the nodes of the list in place
Moved(ns) ==
    [r \in DOMAIN nodeObj |->
        IF r \in Range(nodes) THEN ns[CHOOSE i \in 1..Len(nodes) : nodes[i] = r]
        ELSE nodeObj[r]]

\* the branch of auto_layout: an unknown strategy falls back to the grid
LayoutBy(strategy, ns, es) ==
    IF strategy = "tree"
    THEN tree_layout(ns, es, DEFAULT_SPACING_X, DEFAULT_SPACING_Y,
                     DEFAULT_START_X, DEFAULT_START_Y, "vertical")
    ELSE grid_layout(ns, DEFAULT_SPACING_X, DEFAULT_SPACING_Y,
                     DEFAULT_START_X, DEFAULT_START_Y, AutoColumns(Len(ns)))

auto_layout(strategy) ==
    IF ~active \/ nodes = <<>>
    THEN NoEffect("auto_layout", NoId, [strategy |-> strategy], FALSE)
    ELSE /\ SaveToHistory
         /\ nodeObj' = Moved(LayoutBy(strategy, NodeList, EdgeList))
         /\ UNCHANGED <<dinfo, nodes, edges, edgeObj, node_index, edge_index,
                        tag_index, type_index, edges_by_node>>
         /\ Committed("auto_layout", NoId, [strategy |-> strategy], CurDiagram)

\* what align_nodes and distribute_nodes of the manager do around the core
\* function: the snapshot is pushed before the core function decides
Arranged(op, a, success, ns) ==
    /\ SaveToHistory
    /\ nodeObj' = Moved(ns)
    /\ dirty' = (IF success THEN TRUE ELSE dirty)
    /\ UNCHANGED <<active, dinfo, nodes, edges, edgeObj, node_index, edge_index,
                   tag_index, type_index, edges_by_node, snapshots>>
    /\ lastOp' = IF success THEN Call(op, NoId, a, TRUE, FALSE, 1)
                  ELSE Call(op, NoId, NoArgs, FALSE, FALSE, 0)
    /\ trail' = IF success THEN TrailMutation(CurDiagram, CurDiagram') ELSE TrailReset

align(node_ids, alignment) ==
    LET a == [node_ids |-> node_ids, alignment |-> alignment] IN
    IF ~active THEN NoEffect("align_nodes", NoId, a, FALSE)
    ELSE /\ AlignExact(NodeList, node_ids, alignment)
         /\ Arranged("align_nodes", a, align_ok(NodeList, node_ids, alignment),
                     align_nodes(NodeList, node_ids, alignment))

distribute(node_ids, axis) ==
    LET a == [node_ids |-> node_ids, axis |-> axis] IN
    IF ~active THEN NoEffect("distribute_nodes", NoId, a, FALSE)
    ELSE /\ DistributeExact(NodeList, node_ids, axis)
         /\ Arranged("distribute_nodes", a, distribute_ok(NodeList, node_ids, axis),
                     distribute_nodes(NodeList, node_ids, axis))

\* ---------------------------------------------------------- named snapshots

\* taken is not a key of the code's entry: it records the diagram the snapshot
\* was taken of
create_snapshot(name) ==
    IF ~active THEN NoEffect("create_snapshot", NoId, [name |-> name], TRUE)
    ELSE /\ snapshots' = Put(snapshots, name,
                [diagram |-> ToJsonDict(CurDiagram), file_path |-> file_path,
                 taken |-> CurDiagram])
         /\ UNCHANGED store
         /\ lastOp' = Call("create_snapshot", NoId, [name |-> name], TRUE, FALSE, 0)
         /\ trail' = TrailReset

restore_snapshot(name) ==
    IF name \notin DOMAIN snapshots
    THEN /\ NoEffect("restore_snapshot", NoId, [name |-> name], FALSE)
         /\ UNCHANGED file_path
    ELSE /\ IF active THEN SaveToHistory ELSE UNCHANGED <<history, future>>
         /\ LoadDiagram(FromJsonDict(snapshots[name].diagram))
         /\ file_path' = IF Truthy(snapshots[name].file_path)
                         THEN snapshots[name].file_path ELSE file_path
         /\ dirty' = TRUE
         /\ UNCHANGED snapshots
         /\ lastOp' = Call("restore_snapshot", NoId, [name |-> name], TRUE, FALSE, 1)
         /\ trail' = IF active
                     THEN [TrailMutation(CurDiagram, CurDiagram') EXCEPT !.restored = name]
                     ELSE TrailReset

delete_snapshot(name) ==
    IF name \notin DOMAIN snapshots
    THEN NoEffect("delete_snapshot", NoId, [name |-> name], FALSE)
    ELSE /\ snapshots' = Pop(snapshots, name)
         /\ UNCHANGED store
         /\ lastOp' = Call("delete_snapshot", NoId, [name |-> name], TRUE, FALSE, 0)
         /\ trail' = TrailReset

\* ---------------------------------------------------------- change callbacks

\* what a registered callback does when it is called
CallbackKinds == IF scope = "env" THEN {"returns", "raises"} ELSE {}

\* on_change(callback)
on_change(callback) ==
    /\ Len(callbacks) < MaxCallbacks
    /\ callbacks' = Append(callbacks, callback)
    /\ UNCHANGED <<store, file_path, snapshots, peer>>
    /\ lastOp' = Call("on_change", NoId, NoArgs, TRUE, FALSE, 0)
    /\ trail' = TrailReset

\* list_snapshots(), by the names it returns.  The table is an attribute of
\* the class, so the call reads the same table on every manager.
list_snapshots == DOMAIN snapshots

\* ------------------------------------------ a second manager in the process

\* The second manager starts without a diagram and is driven only through the
\* snapshot calls; it never creates a snapshot of its own.

\* the names the callers of the second manager use
PeerSnapshotNames == IF scope = "env" THEN SnapshotNames ELSE {}

\* restore_snapshot(name) called on the second manager
peer_restore_snapshot(name) ==
    /\ IF name \notin DOMAIN snapshots
       THEN /\ peer' = peer
            /\ lastOp' = Call("peer.restore_snapshot", NoId, NoArgs, FALSE, FALSE, 0)
       ELSE /\ peer' =
                 [active |-> TRUE,
                  diagram |-> FromJsonDict(snapshots[name].diagram),
                  history |-> IF peer.active
                              THEN PushHistory(peer.history, ToJsonDict(peer.diagram))
                              ELSE peer.history,
                  future |-> IF peer.active THEN ClearFuture(peer.future)
                             ELSE peer.future,
                  dirty |-> TRUE,
                  file_path |-> IF Truthy(snapshots[name].file_path)
                                THEN snapshots[name].file_path
                                ELSE peer.file_path,
                  callbacks |-> peer.callbacks]
            /\ lastOp' = Call("peer.restore_snapshot", NoId, [name |-> name],
                              TRUE, FALSE, 1)
    /\ UNCHANGED <<store, file_path, snapshots>>
    /\ trail' = TrailReset

\* delete_snapshot(name) called on the second manager
peer_delete_snapshot(name) ==
    /\ IF name \notin DOMAIN snapshots
       THEN /\ UNCHANGED snapshots
            /\ lastOp' = Call("peer.delete_snapshot", NoId, NoArgs, FALSE, FALSE, 0)
       ELSE /\ snapshots' = Pop(snapshots, name)
            /\ lastOp' = Call("peer.delete_snapshot", NoId, [name |-> name],
                              TRUE, FALSE, 0)
    /\ UNCHANGED <<store, file_path, peer>>
    /\ trail' = TrailReset

\* ------------------------------------------------------------------ queries

\* get_nodes_by_tag(tag): the objects the id index holds for the ids of the
\* tag's entry (a list in the set's iteration order: read here as a set)
get_nodes_by_tag(tag) ==
    IF tag \notin DOMAIN tag_index THEN {}
    ELSE {node_index[nid] : nid \in tag_index[tag] \cap DOMAIN node_index}

get_nodes_by_type(node_type) ==
    IF node_type \notin DOMAIN type_index THEN {}
    ELSE {node_index[nid] : nid \in type_index[node_type] \cap DOMAIN node_index}

get_edges_for_node(node_id) ==
    IF node_id \notin DOMAIN edges_by_node THEN {}
    ELSE {edge_index[eid] : eid \in edges_by_node[node_id] \cap DOMAIN edge_index}

\* The characters of the strings that labels and label queries take here.
Letters(s) ==
    CASE s = "New Node" -> <<"N", "e", "w", " ", "N", "o", "d", "e">>
      [] s = "Renamed" -> <<"R", "e", "n", "a", "m", "e", "d">>
      [] s = "Loaded" -> <<"L", "o", "a", "d", "e", "d">>
      [] s = "NODE" -> <<"N", "O", "D", "E">>
      [] s = "ed" -> <<"e", "d">>
      [] s = "" -> <<>>

\* str.lower(), character by character
Lower(cs) ==
    [i \in 1..Len(cs) |->
        CASE cs[i] = "N" -> "n" [] cs[i] = "R" -> "r" [] cs[i] = "L" -> "l"
          [] cs[i] = "O" -> "o" [] cs[i] = "D" -> "d" [] cs[i] = "E" -> "e"
          [] OTHER -> cs[i]]

\* a in b, for strings
Within(a, b) ==
    \E k \in 0..(Len(b) - Len(a)) : SubSeq(b, k + 1, k + Len(a)) = a

\* the label queries: None, one matched only when case is ignored, one that
\* is an ending of several labels
LabelQueries == {None, "NODE", "ed"}

\* search_nodes(label, tag, node_type): the nodes returned, read as a set.
\* The candidates are the objects the id index holds for the ids of the
\* tag's or the type's index entry, or the node list.
search_nodes(label, tag, node_type) ==
    IF ~active THEN {}
    ELSE LET candidates ==
                IF Truthy(tag) /\ tag \in DOMAIN tag_index
                THEN {node_index[nid] : nid \in tag_index[tag] \cap DOMAIN node_index}
                ELSE IF Truthy(node_type) /\ node_type \in DOMAIN type_index
                THEN {node_index[nid] :
                         nid \in type_index[node_type] \cap DOMAIN node_index}
                ELSE Range(nodes)
         IN {r \in candidates :
                /\ ~(Truthy(label)
                       /\ ~Within(Lower(Letters(label)), Lower(Letters(nodeObj[r].label))))
                /\ ~(Truthy(tag) /\ tag \notin Range(nodeObj[r].tags))
                /\ ~(Truthy(node_type) /\ nodeObj[r].type # node_type)}

\* ------------------------------------------------------------ specification

StepLimit ==
    CASE scope = "wide" -> MaxSteps
      [] scope = "deep" -> MaxDeepSteps
      [] OTHER -> MaxEnvSteps

\* every call counts against the number of calls of the run
Tick ==
    /\ steps < StepLimit
    /\ steps' = steps + 1
    /\ UNCHANGED <<scope, callbacks, applied, bridge>>

\* a call on this manager that leaves its path alone; the other manager is
\* not involved
Own == Tick /\ UNCHANGED <<file_path, peer>>

NewDiagram == Tick /\ UNCHANGED peer /\ new_diagram

OpenDiagram == Tick /\ UNCHANGED peer /\ \E path \in Paths : open_diagram(path)

Undo == Own /\ undo

Redo == Own /\ redo

AddNode == Own /\ \E kw \in AddNodeInputs : add_node(kw)

UpdateNode == Own /\ \E id \in CalledNodeIds, kw \in UpdateNodeInputs : update_node(id, kw)

DeleteNode == Own /\ \E id \in CalledNodeIds : delete_node(id)

AddEdge == Own /\ \E a \in AddEdgeInputs : add_edge(a)

UpdateEdge == Own /\ \E id \in CalledEdgeIds, kw \in UpdateEdgeInputs : update_edge(id, kw)

DeleteEdge == Own /\ \E id \in CalledEdgeIds : delete_edge(id)

UpdateDiagramInfo == Own /\ \E a \in DiagramInfoInputs : update_diagram_info(a)

BulkUpdateTags == Own /\ \E a \in BulkTagInputs : bulk_update_tags(a)

AutoLayout == Own /\ \E strategy \in Strategies : auto_layout(strategy)

AlignNodes == Own /\ \E ids \in NodeIdLists, alignment \in AlignInputs : align(ids, alignment)

DistributeNodes == Own /\ \E ids \in NodeIdLists, axis \in AxisInputs : distribute(ids, axis)

CreateSnapshot == Own /\ \E name \in SnapshotNames : create_snapshot(name)

RestoreSnapshot == Tick /\ UNCHANGED peer /\ \E name \in SnapshotNames : restore_snapshot(name)

DeleteSnapshot == Own /\ \E name \in SnapshotNames : delete_snapshot(name)

OnChange ==
    /\ steps < StepLimit
    /\ steps' = steps + 1
    /\ UNCHANGED <<scope, applied, bridge>>
    /\ \E callback \in CallbackKinds : on_change(callback)

PeerRestoreSnapshot == Tick /\ \E name \in PeerSnapshotNames : peer_restore_snapshot(name)

PeerDeleteSnapshot == Tick /\ \E name \in PeerSnapshotNames : peer_delete_snapshot(name)

Next ==
    \/ NewDiagram
    \/ OpenDiagram
    \/ Undo
    \/ Redo
    \/ AddNode
    \/ UpdateNode
    \/ DeleteNode
    \/ AddEdge
    \/ UpdateEdge
    \/ DeleteEdge
    \/ UpdateDiagramInfo
    \/ BulkUpdateTags
    \/ AutoLayout
    \/ AlignNodes
    \/ DistributeNodes
    \/ CreateSnapshot
    \/ RestoreSnapshot
    \/ DeleteSnapshot
    \/ PeerRestoreSnapshot
    \/ PeerDeleteSnapshot
    \/ OnChange

Spec == Init /\ [][Next]_vars

\* ------------------------------------------------------------ undo and redo

MutatingOps ==
    {"add_node", "update_node", "delete_node", "add_edge", "update_edge",
     "delete_edge", "update_diagram_info", "bulk_update_tags", "auto_layout",
     "align_nodes", "distribute_nodes", "restore_snapshot"}

\* a streak of successful mutations is on record, followed only by undos and
\* then redos
Streak == trail.states # <<>>

\* the diagram before the last k mutations of the streak
StreakBack(k) == trail.states[Len(trail.states) - k]

\* The value of a connection side: the store takes every falsy side for the
\* unset one (it writes neither None nor "" into a snapshot).
SideValue(side) == IF Truthy(side) THEN side ELSE None

\* the value of a diagram
DiagramValue(d) ==
    [d EXCEPT !.edges =
        [i \in 1..Len(d.edges) |->
            [d.edges[i] EXCEPT !.source_side = SideValue(@),
                               !.target_side = SideValue(@)]]]

\* equality by value
SameDiagram(a, b) == DiagramValue(a) = DiagramValue(b)

C2_HistoryBounded == Len(history) <= max_history

\* the history is full after a streak of more mutations than it can hold
C2_Witness ==
    /\ Len(history) = max_history
    /\ Len(trail.states) > max_history + 1
    /\ trail.undos = 0

\* C3: right after a successful mutating operation other than undo and redo
\* the redo stack is empty, so that redo() finds nothing to restore.
C3_MutationClearsFuture ==
    (lastOp.op \in MutatingOps /\ lastOp.ok) => future = <<>>

\* a successful mutation has just been made on a diagram that has a past
C3_Witness ==
    /\ lastOp.op \in MutatingOps
    /\ lastOp.ok
    /\ history # <<>>
    /\ future = <<>>

\* ---------------------------------------------------------------- indexes

NodeTypes == {"component", "service"}

\* the nodes of the node collection
NodesHeld == Range(nodes)

\* the edges of the edge collection
EdgesHeld == Range(edges)

\* the ids carried by the nodes of the node collection
NodeIdsHeld == {nodeObj[r].id : r \in NodesHeld}

\* C4: for every tag T get_nodes_by_tag(T) is exactly the nodes of the node
\* collection whose tags contain T, and for every type Y get_nodes_by_type(Y)
\* is exactly the nodes of the collection whose type is Y.
C4_TagAndTypeLookupsExact ==
    /\ \A T \in Tags :
          get_nodes_by_tag(T) = {r \in NodesHeld : T \in Range(nodeObj[r].tags)}
    /\ \A Y \in NodeTypes :
          get_nodes_by_type(Y) = {r \in NodesHeld : nodeObj[r].type = Y}

\* C5: for every node id n get_edges_for_node(n) is exactly the edges of the
\* edge collection whose source or target is n.
C5_IncidentEdgeLookupExact ==
    \A n \in NodeIds :
        get_edges_for_node(n) =
            {r \in EdgesHeld : edgeObj[r].source = n \/ edgeObj[r].target = n}

\* C6: a successful delete_node(X) leaves no node X in the node collection or
\* in any index, leaves no edge with source or target X in the edge collection,
\* leaves no removed edge in the edge-by-id and incident-edge indexes, and
\* leaves every edge not incident to X in place and unchanged.
C6_DeleteNodeCascades ==
    [][(lastOp'.op = "delete_node" /\ lastOp'.ok) =>
        LET X == lastOp'.key
            removed == {edgeObj[r].id : r \in EdgesHeld \ Range(edges')}
        IN /\ \A r \in Range(nodes') : nodeObj'[r].id # X
           /\ X \notin DOMAIN node_index'
           /\ \A T \in DOMAIN tag_index' : X \notin tag_index'[T]
           /\ \A Y \in DOMAIN type_index' : X \notin type_index'[Y]
           /\ \A r \in Range(edges') :
                 edgeObj'[r].source # X /\ edgeObj'[r].target # X
           /\ \A eid \in removed :
                 /\ eid \notin DOMAIN edge_index'
                 /\ \A n \in DOMAIN edges_by_node' : eid \notin edges_by_node'[n]
           /\ \A r \in EdgesHeld :
                 (edgeObj[r].source # X /\ edgeObj[r].target # X) =>
                     r \in Range(edges') /\ edgeObj'[r] = edgeObj[r]]_vars

\* C7: no two nodes of the node collection share an id, and the id index maps
\* each id of the collection, and nothing else, to the one node carrying it.
C7_NodeIdsUniqueAndIndexed ==
    /\ \A i, j \in 1..Len(nodes) :
          nodeObj[nodes[i]].id = nodeObj[nodes[j]].id => i = j
    /\ DOMAIN node_index = NodeIdsHeld
    /\ \A r \in NodesHeld : node_index[nodeObj[r].id] = r

\* ------------------------------------------------------------ frame and errors

\* the keyword arguments that carry a value
Supplied(kw) == {f \in DOMAIN kw : kw[f] # NoneV}

\* C8: a successful update_node changes only the fields it was given of the
\* node it found: that node's other fields, every other node, the node and
\* edge collections, every edge and the diagram's name and metadata keep
\* their values.
C8_UpdateNodeFrame ==
    [][(lastOp'.op = "update_node" /\ lastOp'.ok) =>
        LET r == node_index[lastOp'.key]
        IN /\ \A f \in NodeFields \ Supplied(lastOp'.kw) :
                 nodeObj'[r][f] = nodeObj[r][f]
           /\ \A q \in DOMAIN nodeObj \ {r} : nodeObj'[q] = nodeObj[q]
           /\ nodes' = nodes
           /\ edges' = edges
           /\ edgeObj' = edgeObj
           /\ dinfo' = dinfo]_vars

\* an update that gave a label and left the type unset has changed the label
\* of a node of a diagram that also holds an edge
C8_Witness ==
    /\ lastOp.op = "update_node"
    /\ lastOp.ok
    /\ "label" \in Supplied(lastOp.kw)
    /\ "type" \in DOMAIN lastOp.kw \ Supplied(lastOp.kw)
    /\ Len(edges) >= 1

\* the ids carried by the edges of the edge collection
EdgeIdsHeld == {edgeObj[r].id : r \in EdgesHeld}

\* C9: add_edge with an endpoint that is missing, empty or not the id of a
\* node of the store raises and changes nothing (collections, indexes, history,
\* future, dirty flag) and notifies nobody; add_edge with both endpoints the
\* ids of nodes of the store succeeds and appends one edge, a self-loop or a
\* second edge of the same pair included.
C9_AddEdgeValidatesEndpoints ==
    [][\A a \in AddEdgeInputs :
        (active /\ add_edge(a)) =>
            IF /\ Either(a.source, a.from_node) \in NodeIdsHeld
               /\ Either(a.target, a.to_node) \in NodeIdsHeld
            THEN /\ lastOp'.ok
                 /\ Len(edges') = Len(edges) + 1
            ELSE /\ ~lastOp'.ok
                 /\ lastOp'.raised
                 /\ lastOp'.notified = 0
                 /\ UNCHANGED store]_vars

\* C10: update_node, delete_node, update_edge and delete_edge succeed only on
\* an id that is in the store; when they report not-found they leave the
\* collections, the indexes, the history and future stacks and the dirty flag
\* unchanged and notify nobody.
C10_MissingIdChangesNothing ==
    [][/\ lastOp'.op \in {"update_node", "delete_node"} =>
            IF lastOp'.ok THEN lastOp'.key \in NodeIdsHeld
            ELSE lastOp'.notified = 0 /\ UNCHANGED store
       /\ lastOp'.op \in {"update_edge", "delete_edge"} =>
            IF lastOp'.ok THEN lastOp'.key \in EdgeIdsHeld
            ELSE lastOp'.notified = 0 /\ UNCHANGED store]_vars

\* ------------------------------------------------------- no diagram, no-ops

\* the operations that change the diagram of a store that has one
DiagramOps ==
    {"add_node", "update_node", "delete_node", "add_edge", "update_edge",
     "delete_edge", "update_diagram_info", "bulk_update_tags", "auto_layout",
     "align_nodes", "distribute_nodes", "undo", "redo"}

\* no index of the store holds anything
IndexesEmpty(nix, eix, tix, yix, ebn) ==
    /\ nix = EmptyMap
    /\ eix = EmptyMap
    /\ tix = EmptyMap
    /\ yix = EmptyMap
    /\ ebn = EmptyMap

\* C11: while no diagram has been created or opened, each of the mutating
\* operations fails, and afterwards the history and future stacks are empty,
\* the indexes are empty, the dirty flag is false and no diagram is active.
C11_NoDiagramNoEffect ==
    [][(~active /\ lastOp'.op \in DiagramOps) =>
        /\ ~lastOp'.ok
        /\ ~active'
        /\ history' = <<>>
        /\ future' = <<>>
        /\ IndexesEmpty(node_index', edge_index', tag_index', type_index',
                        edges_by_node')
        /\ ~dirty']_vars

\* a mutating operation has been called and has raised with no diagram open
C11_Witness ==
    /\ ~active
    /\ lastOp.op \in DiagramOps
    /\ lastOp.raised
    /\ ~lastOp.ok

\* C12: undo() on an empty history stack and redo() on an empty future stack
\* return None without raising, leave the diagram, both stacks, the indexes
\* and the dirty flag as they were and invoke no change callback.
C12_NothingToUndoOrRedo ==
    [][/\ (lastOp'.op = "undo" /\ history = <<>>) =>
            (~lastOp'.ok /\ ~lastOp'.raised /\ lastOp'.notified = 0
             /\ UNCHANGED store)
       /\ (lastOp'.op = "redo" /\ future = <<>>) =>
            (~lastOp'.ok /\ ~lastOp'.raised /\ lastOp'.notified = 0
             /\ UNCHANGED store)]_vars

\* undo() has just found nothing to undo on an active diagram whose redo stack
\* is not empty
C12_Witness ==
    /\ active
    /\ lastOp.op = "undo"
    /\ ~lastOp.ok
    /\ history = <<>>
    /\ future # <<>>

\* ------------------------------------------------------------ named snapshots

\* the diagram a named snapshot holds
SnapshotContent(name) == FromJsonDict(snapshots[name].diagram)

StackOps ==
    {"add_node", "update_node", "delete_node", "add_edge", "update_edge",
     "delete_edge", "undo", "redo", "new_diagram", "open_diagram"}

\* C15: create_snapshot and delete_snapshot leave the diagram, the history
\* stack, the future stack and the dirty flag as they were, and the add,
\* update and delete operations, undo, redo, new_diagram and open_diagram leave
\* the named snapshots and their contents as they were.
C15_SnapshotsApartFromStacks ==
    [][/\ lastOp'.op \in {"create_snapshot", "delete_snapshot"} =>
            UNCHANGED <<active, dinfo, nodes, edges, nodeObj, edgeObj, history,
                        future, dirty>>
       /\ lastOp'.op \in StackOps => snapshots' = snapshots]_vars

\* a snapshot exists while both stacks hold entries: an undo has just been
\* made with the snapshot in the table
C15_Witness ==
    /\ DOMAIN snapshots # {}
    /\ lastOp.op = "undo"
    /\ lastOp.ok
    /\ history # <<>>
    /\ future # <<>>

\* ----------------------------------------- snapshots and the second manager

PeerOps == {"peer.restore_snapshot", "peer.delete_snapshot"}

\* C16: named snapshots are scoped to one manager: no call on this manager
\* changes what the second manager's list_snapshots returns, and a snapshot
\* created through this manager (every snapshot there is: the second manager
\* creates none) is neither restored into nor deleted through the second
\* manager.
C16_SnapshotsScopedToInstance ==
    [][/\ lastOp'.op \notin PeerOps => list_snapshots' = list_snapshots
       /\ lastOp'.op = "peer.restore_snapshot" => ~lastOp'.ok /\ peer' = peer
       /\ lastOp'.op = "peer.delete_snapshot" =>
             ~lastOp'.ok /\ snapshots' = snapshots]_vars

\* C16, the part about delete alone: a snapshot created through this manager
\* is not deleted through the second manager.
C16_PeerCannotDelete ==
    [][lastOp'.op = "peer.delete_snapshot" => snapshots' = snapshots]_vars

\* C16, the part about restore alone: the second manager never comes to hold
\* a diagram taken through this manager.
C16_PeerCannotRestore == ~peer.active
\* ---------------------------------------------------------- change callbacks

\* the mutations whose success is a commit
CommittedOps ==
    {"add_node", "update_node", "delete_node", "add_edge", "update_edge",
     "delete_edge", "update_diagram_info", "auto_layout", "align_nodes",
     "distribute_nodes", "undo", "redo", "restore_snapshot", "new_diagram"}

\* every index answers for the collections as they are: the id indexes hold
\* the nodes and edges of the collections, and the tag, type and incident-edge
\* lookups return what the collections hold
IndexesReflectCollections ==
    /\ DOMAIN node_index = NodeIdsHeld
    /\ \A r \in NodesHeld : node_index[nodeObj[r].id] = r
    /\ DOMAIN edge_index = {edgeObj[r].id : r \in EdgesHeld}
    /\ \A r \in EdgesHeld : edge_index[edgeObj[r].id] = r
    /\ \A T \in Tags :
          get_nodes_by_tag(T) = {r \in NodesHeld : T \in Range(nodeObj[r].tags)}
    /\ \A Y \in {nodeObj[r].type : r \in NodesHeld} :
          get_nodes_by_type(Y) = {r \in NodesHeld : nodeObj[r].type = Y}
    /\ \A n \in NodeIds :
          get_edges_for_node(n) =
              {r \in EdgesHeld : edgeObj[r].source = n \/ edgeObj[r].target = n}

\* C17: every committed mutation invokes every registered change callback at
\* least once, and when the callbacks run (the last statement of each
\* operation, so in the state the operation leaves) the collections and all
\* indexes reflect the completed mutation.
C17_CallbacksAfterCompletedMutation ==
    [][(lastOp'.op \in CommittedOps /\ lastOp'.ok) =>
          /\ lastOp'.notified >= 1
          /\ lastOp'.invoked = Len(callbacks)
          /\ IndexesReflectCollections']_vars

\* C17, the part that does not depend on the indexes or on what a callback
\* does: every committed mutation calls _notify_change() once, and that calls
\* every registered callback when none of them raises.
C17_NotifiesOncePerCommit ==
    [][(lastOp'.op \in CommittedOps /\ lastOp'.ok) =>
          /\ lastOp'.notified = 1
          /\ ~Escapes => lastOp'.invoked = Len(callbacks)]_vars

\* C17, the part about the callbacks alone: every registered callback is
\* invoked by every committed mutation.
C17_EveryCallbackInvoked ==
    [][(lastOp'.op \in CommittedOps /\ lastOp'.ok) =>
          lastOp'.invoked = Len(callbacks)]_vars

\* C17, the part about the indexes alone.
C17_IndexesCurrentAtCallback ==
    [][(lastOp'.op \in CommittedOps /\ lastOp'.ok /\ lastOp'.notified >= 1) =>
          IndexesReflectCollections']_vars

\* C18: when a registered change callback raises, the mutating operation still
\* returns its normal result and every other registered callback is still
\* invoked; the mutation stays committed (the operation has written all of its
\* state before the callbacks run).
C18_CallbackFailureContained ==
    [][(lastOp'.op \in CommittedOps /\ lastOp'.ok /\ Escapes) =>
          /\ ~lastOp'.escaped
          /\ lastOp'.invoked = Len(callbacks)]_vars

\* C18, the part about the other callbacks alone.
C18_OtherCallbacksStillInvoked ==
    [][(lastOp'.op \in CommittedOps /\ lastOp'.ok /\ Escapes) =>
          lastOp'.invoked = Len(callbacks)]_vars
\* ------------------------------------------------------- layout: failing calls

\* the position and size of every node object
Positions ==
    [r \in DOMAIN nodeObj |->
        [x |-> nodeObj[r].x, y |-> nodeObj[r].y,
         width |-> nodeObj[r].width, height |-> nodeObj[r].height]]

\* the number of nodes of the diagram that some list of ids the callers pass
\* names (they pass one list)
Present == Min({Cardinality(TargetsOf(NodeList, ids)) : ids \in NodeIdLists})

\* C19: on an open diagram align_nodes with fewer than 2 of the given ids
\* present, and distribute_nodes with fewer than 3, return the failure value
\* and leave node positions, history stack, future stack and dirty flag as
\* they were, and invoke no change callback.
C19_TooFewTargetsNoEffect ==
    [][/\ (active /\ lastOp'.op = "align_nodes" /\ Present < 2) =>
             /\ ~lastOp'.ok
             /\ Positions' = Positions
             /\ UNCHANGED <<history, future, dirty>>
             /\ lastOp'.notified = 0
       /\ (active /\ lastOp'.op = "distribute_nodes" /\ Present < 3) =>
             /\ ~lastOp'.ok
             /\ Positions' = Positions
             /\ UNCHANGED <<history, future, dirty>>
             /\ lastOp'.notified = 0]_vars

\* C19, without the two stacks: the failing call returns the failure value,
\* moves no node, keeps the dirty flag and invokes no callback.
C19_TooFewTargetsMoveNothing ==
    [][(/\ active
        /\ \/ lastOp'.op = "align_nodes" /\ Present < 2
           \/ lastOp'.op = "distribute_nodes" /\ Present < 3) =>
          /\ ~lastOp'.ok
          /\ Positions' = Positions
          /\ dirty' = dirty
          /\ lastOp'.notified = 0]_vars

KnownStrategies == {"grid", "tree", "force"}

\* C20: an unrecognized keyword is rejected and changes nothing: a call of
\* auto_layout, align_nodes or distribute_nodes that succeeds was given a
\* recognized strategy, alignment or axis, and one that fails leaves every
\* node position unchanged.
C20_UnknownKeywordRejected ==
    [][/\ (lastOp'.op = "auto_layout" /\ lastOp'.ok) =>
             lastOp'.kw.strategy \in KnownStrategies
       /\ (lastOp'.op = "align_nodes" /\ lastOp'.ok) =>
             lastOp'.kw.alignment \in Alignments
       /\ (lastOp'.op = "distribute_nodes" /\ lastOp'.ok) =>
             lastOp'.kw.axis \in Axes
       /\ (lastOp'.op \in {"auto_layout", "align_nodes", "distribute_nodes"}
              /\ ~lastOp'.ok) => Positions' = Positions]_vars

\* C20, the parts about align_nodes and distribute_nodes and about the calls
\* that fail.
C20_UnknownAlignmentOrAxisRejected ==
    [][/\ (lastOp'.op = "align_nodes" /\ lastOp'.ok) =>
             lastOp'.kw.alignment \in Alignments
       /\ (lastOp'.op = "distribute_nodes" /\ lastOp'.ok) =>
             lastOp'.kw.axis \in Axes
       /\ (lastOp'.op \in {"auto_layout", "align_nodes", "distribute_nodes"}
              /\ ~lastOp'.ok) => Positions' = Positions]_vars

\* ================================================ the core package's functions
\* The layout, analysis and validation functions are functions of their
\* arguments.  Core is the specification of one call of one of them, on
\* arguments drawn from the sets below; the manager is left as constructed.

\* the largest node list handed to grid_layout
MaxGridNodes == 9

\* the manager does not move during a call of a core function
ManagerIdle ==
    UNCHANGED <<store, file_path, snapshots, peer, callbacks, lastOp, trail,
                steps, scope>>

\* one call is made in a run
Fresh == applied.fn = "none"

Applied(fn, args, result) ==
    /\ applied' = [fn |-> fn, args |-> args, result |-> result]
    /\ ManagerIdle
    /\ UNCHANGED bridge

\* a list of n nodes with the ids 1..n and the defaults of the class
PlainNodes(n) == [i \in 1..n |-> NodeOf([id |-> i], NoId)]

\* spacing_x, spacing_y, start_x, start_y: the defaults and another choice
Geometries ==
    {[spacing_x |-> DEFAULT_SPACING_X, spacing_y |-> DEFAULT_SPACING_Y,
      start_x |-> DEFAULT_START_X, start_y |-> DEFAULT_START_Y],
     [spacing_x |-> 7, spacing_y |-> 11, start_x |-> 3, start_y |-> 5]}

\* columns: None (NoneV) or a positive count
ColumnInputs == {NoneV} \cup {Some(c) : c \in 1..4}

\* grid_layout from its first line: the empty list is returned as it is, and
\* a columns of None is replaced by the automatic count
GridLayoutCall(ns, g, columns) ==
    IF ns = <<>> THEN ns
    ELSE grid_layout(ns, g.spacing_x, g.spacing_y, g.start_x, g.start_y,
                     IF columns = NoneV THEN AutoColumns(Len(ns)) ELSE columns[1])

GridLayout ==
    /\ Fresh
    /\ \E n \in 0..MaxGridNodes, g \in Geometries, columns \in ColumnInputs :
        Applied("grid_layout", [nodes |-> PlainNodes(n), geometry |-> g,
                                columns |-> columns],
                GridLayoutCall(PlainNodes(n), g, columns))

\* ------------------------------------------------------- diagrams as graphs

\* the longest edge list handed to an analysis, validation or tree function
MaxGraphEdges == 3

\* The ids an edge may name; the node lists below hold some or all of them, so
\* an edge can name a node that is missing from the list.
GraphIds == {1, 2, 3}

\* diagram.nodes, as the list of the nodes' ids
GraphNodeLists == {<<>>, <<1>>, <<1, 2>>, <<1, 2, 3>>, <<3, 1, 2>>}

\* diagram.edges, as the list of <<source, target>> pairs: several edges may
\* join the same pair
GraphEdgeLists ==
    UNION {[1..m -> GraphIds \X GraphIds] : m \in 0..MaxGraphEdges}

\* the nodes and edges of the diagram handed over: the i-th edge has the id i
NodesOfGraph(ids) == [i \in 1..Len(ids) |-> NodeOf([id |-> ids[i]], NoId)]

EdgesOfGraph(pairs) ==
    [i \in 1..Len(pairs) |->
        EdgeOf([id |-> i, source |-> pairs[i][1], target |-> pairs[i][2]], NoId)]

\* adjacency[id] of find_paths and find_cycles: the targets of the edges that
\* leave id, in edge order (a defaultdict: the empty list for any other id)
Adjacency(es, id) ==
    LET out == SelectSeq(es, LAMBDA e : e.source = id)
    IN [i \in 1..Len(out) |-> out[i].target]

\* ---------------------------------------------------------------- find_cycles

\* the loop over the neighbours within dfs(start, current, path, visited) of
\* find_cycles: the cycles it appends, in the order it appends them.  The
\* call adds the neighbour to path and visited and takes it out again, so the
\* rest of the loop sees both as they were.
RECURSIVE CycleDfs(_, _, _, _, _)
CycleDfs(start, neighbours, path, visited, es) ==
    IF neighbours = <<>> THEN <<>>
    ELSE LET neighbor == Head(neighbours)
             found ==
                IF neighbor = start /\ Len(path) > 1
                THEN <<Append(path, start)>>
                ELSE IF neighbor \notin visited
                THEN CycleDfs(start, Adjacency(es, neighbor), Append(path, neighbor),
                              visited \cup {neighbor}, es)
                ELSE <<>>
         IN found \o CycleDfs(start, Tail(neighbours), path, visited, es)

\* the loop over diagram.nodes: a search from every node id not yet started from
RECURSIVE CyclesFrom(_, _, _)
CyclesFrom(ns, visited_global, es) ==
    IF ns = <<>> THEN <<>>
    ELSE LET id == Head(ns).id IN
         IF id \in visited_global THEN CyclesFrom(Tail(ns), visited_global, es)
         ELSE CycleDfs(id, Adjacency(es, id), <<id>>, {id}, es)
              \o CyclesFrom(Tail(ns), visited_global \cup {id}, es)

\* cycle[:-1] as a frozenset
CycleSet(cycle) == {cycle[i] : i \in 1..(Len(cycle) - 1)}

\* a result that keeps every cycle found
UniqueCyclesKeepAll(cycles, seen) == cycles

\* the last loop: the first cycle of every node set is kept
RECURSIVE UniqueCycles(_, _)
UniqueCycles(cycles, seen) ==
    IF cycles = <<>> THEN <<>>
    ELSE IF CycleSet(Head(cycles)) \in seen
    THEN UniqueCycles(Tail(cycles), seen)
    ELSE <<Head(cycles)>> \o UniqueCycles(Tail(cycles), seen \cup {CycleSet(Head(cycles))})

find_cycles(ns, es) == UniqueCycles(CyclesFrom(ns, {}, es), {})

\* The nesting of dfs within dfs that the loop over the neighbours reaches:
\* a call of dfs is nested as deep as its path is long.
RECURSIVE CycleFrames(_, _, _, _, _)
CycleFrames(start, neighbours, path, visited, es) ==
    IF neighbours = <<>> THEN Len(path)
    ELSE LET neighbor == Head(neighbours)
             below ==
                IF neighbor = start /\ Len(path) > 1 THEN Len(path)
                ELSE IF neighbor \notin visited
                THEN CycleFrames(start, Adjacency(es, neighbor), Append(path, neighbor),
                                 visited \cup {neighbor}, es)
                ELSE Len(path)
         IN Max({below, CycleFrames(start, Tail(neighbours), path, visited, es)})

\* the deepest nesting of dfs in a call of find_cycles: 0 without a node
find_cycles_frames(ns, es) ==
    Max({0} \cup {CycleFrames(ns[i].id, Adjacency(es, ns[i].id), <<ns[i].id>>,
                              {ns[i].id}, es) : i \in 1..Len(ns)})

\* a call of a function that calls itself: frames is its deepest nesting
AppliedNested(fn, args, result, frames) ==
    /\ applied' = [fn |-> fn, args |-> args, result |-> result, frames |-> frames]
    /\ UNCHANGED bridge
    /\ ManagerIdle

FindCycles ==
    /\ Fresh
    /\ \E ids \in GraphNodeLists, pairs \in GraphEdgeLists :
        AppliedNested("find_cycles", [nodes |-> ids, edges |-> pairs],
                      find_cycles(NodesOfGraph(ids), EdgesOfGraph(pairs)),
                      find_cycles_frames(NodesOfGraph(ids), EdgesOfGraph(pairs)))

\* ----------------------------------------------------------- validate_diagram

\* str.strip() on the labels drawn
Strip(label) == IF label = "  " THEN "" ELSE label

\* the labels the nodes of a validated diagram carry, by node id
LabelChoices ==
    {[id \in GraphIds |-> "A"],
     [id \in GraphIds |-> DefaultLabel],
     [id \in GraphIds |-> IF id = 1 THEN "" ELSE IF id = 2 THEN "  " ELSE "B"]}

LabelledNodes(ids, labels) ==
    [i \in 1..Len(ids) |-> NodeOf([id |-> ids[i], label |-> labels[ids[i]]], NoId)]

\* ValidationIssue(severity, message, node_id, edge_id): the message is kept
\* as its kind and, for the orphan message, the ids it lists; NoId stands for
\* an id of None
Issue(severity, kind, node_id, edge_id, listed) ==
    [severity |-> severity, kind |-> kind, node_id |-> node_id,
     edge_id |-> edge_id, listed |-> listed]

\* an orphan check that takes an edge from a node to itself for no connection
OrphansIgnoringSelfLoops(ns, es) ==
    {ns[i].id : i \in 1..Len(ns)}
        \ UNION {{es[i].source, es[i].target} : i \in {k \in 1..Len(es) :
                                                    es[k].source # es[k].target}}

\* orphans = node_ids - connected_nodes
Orphans(ns, es) ==
    {ns[i].id : i \in 1..Len(ns)}
        \ UNION {{es[i].source, es[i].target} : i \in 1..Len(es)}

\* one warning that lists the orphans in node order
OrphanIssues(ns, es) ==
    LET orphans == Orphans(ns, es)
        listed == SelectSeq(ns, LAMBDA n : n.id \in orphans)
    IN IF orphans = {} THEN <<>>
       ELSE <<Issue("warning", "orphans", NoId, NoId,
                    [i \in 1..Len(listed) |-> listed[i].id])>>

LabelIssues(ns) ==
    LET bad == SelectSeq(ns, LAMBDA n : n.label = "" \/ Strip(n.label) = ""
                                        \/ n.label = "New Node")
    IN [i \in 1..Len(bad) |-> Issue("warning", "label", bad[i].id, NoId, <<>>)]

\* per edge: an error for a source that is no node id, then one for the target
RECURSIVE ReferenceIssues(_, _)
ReferenceIssues(es, node_ids) ==
    IF es = <<>> THEN <<>>
    ELSE LET edge == Head(es) IN
         (IF edge.source \notin node_ids
          THEN <<Issue("error", "source", NoId, edge.id, <<>>)>> ELSE <<>>)
         \o (IF edge.target \notin node_ids
             THEN <<Issue("error", "target", NoId, edge.id, <<>>)>> ELSE <<>>)
         \o ReferenceIssues(Tail(es), node_ids)

SelfLoopIssues(es) ==
    LET loops == SelectSeq(es, LAMBDA e : e.source = e.target)
    IN [i \in 1..Len(loops) |->
           Issue("warning", "self", loops[i].source, loops[i].id, <<>>)]

\* a duplicate check that takes an edge B -> A for a repeat of A -> B
DuplicateIssuesEitherWay(es) ==
    LET at == [i \in 1..Len(es) |-> i]
        dup == SelectSeq(at, LAMBDA i : \E j \in 1..(i - 1) :
                              {es[j].source, es[j].target} = {es[i].source, es[i].target})
    IN [i \in 1..Len(dup) |-> Issue("warning", "duplicate", NoId, es[dup[i]].id, <<>>)]

\* an edge whose pair an earlier edge of the list has
DuplicateIssues(es) ==
    LET at == [i \in 1..Len(es) |-> i]
        dup == SelectSeq(at, LAMBDA i : \E j \in 1..(i - 1) :
                              es[j].source = es[i].source /\ es[j].target = es[i].target)
    IN [i \in 1..Len(dup) |-> Issue("warning", "duplicate", NoId, es[dup[i]].id, <<>>)]

validate_diagram(ns, es) ==
    IF ns = <<>> THEN <<Issue("info", "empty", NoId, NoId, <<>>)>>
    ELSE OrphanIssues(ns, es)
         \o LabelIssues(ns)
         \o ReferenceIssues(es, {ns[i].id : i \in 1..Len(ns)})
         \o SelfLoopIssues(es)
         \o DuplicateIssues(es)

ValidateDiagram ==
    /\ Fresh
    /\ \E ids \in GraphNodeLists, labels \in LabelChoices, pairs \in GraphEdgeLists :
        Applied("validate_diagram", [nodes |-> ids, labels |-> labels, edges |-> pairs],
                validate_diagram(LabelledNodes(ids, labels), EdgesOfGraph(pairs)))

\* ------------------------------------------------- to_json_dict / from_json_dict

\* the diagrams serialized and read back: up to two nodes, no edge or one edge
\* with any pair of connection sides, and any metadata
RoundTripDiagrams ==
    {[id |-> 1, name |-> name,
      nodes |-> [i \in 1..n |->
                    NodeOf([id |-> i, label |-> "A", x |-> 10 * i, tags |-> <<"t1">>], NoId)],
      edges |-> es,
      metadata |-> [created_at |-> t, updated_at |-> t + 1,
                    grid_size |-> grid, show_grid |-> show]] :
        name \in {DefaultName, "D"}, n \in 1..2,
        es \in {<<>>} \cup {<<EdgeOf([id |-> 1, source |-> 1, target |-> 2, label |-> "l",
                                      source_side |-> a, target_side |-> b], NoId)>> :
                               a \in Sides, b \in Sides},
        t \in {0, 1}, grid \in {DefaultGridSize, 0}, show \in BOOLEAN}

\* Diagram.from_json_dict(d.to_json_dict())
RoundTrip ==
    /\ Fresh
    /\ \E d \in RoundTripDiagrams :
          Applied("round_trip", [diagram |-> d], FromJsonDict(ToJsonDict(d)))

\* The edge dicts read: each end is given under some of its canonical and
\* legacy keys, at least one, with a different value under each key.
EndKeys(canonical, legacy, legacy_node) ==
    {[k \in keys |-> IF k = canonical THEN 1 ELSE IF k = legacy THEN 2 ELSE 3] :
        keys \in SUBSET {canonical, legacy, legacy_node} \ {{}}}

EdgeDicts ==
    {[k \in DOMAIN s \cup DOMAIN t \cup {"id"} |->
         IF k \in DOMAIN s THEN s[k] ELSE IF k \in DOMAIN t THEN t[k] ELSE 1] :
        s \in EndKeys("source", "from", "from_node"),
        t \in EndKeys("target", "to", "to_node")}

\* Edge(**e), as from_json_dict builds each edge
ReadEdge ==
    /\ Fresh
    /\ \E e \in EdgeDicts : Applied("Edge", [data |-> e], EdgeOf(e, NoId))

\* ---------------------------------------------------------------- tree_layout

Orientations == {"vertical", "horizontal"}

\* tree_layout(nodes, edges, spacing_x, spacing_y, start_x, start_y, orientation)
TreeLayout ==
    /\ Fresh
    /\ \E ids \in GraphNodeLists, pairs \in GraphEdgeLists, g \in Geometries,
          orientation \in Orientations :
        Applied("tree_layout",
                [nodes |-> ids, edges |-> pairs, geometry |-> g,
                 orientation |-> orientation],
                tree_layout(NodesOfGraph(ids), EdgesOfGraph(pairs), g.spacing_x,
                            g.spacing_y, g.start_x, g.start_y, orientation))

\* ----------------------------------------------------------- distribute_nodes

\* the longest node list handed to distribute_nodes
MaxDistributeNodes == 4

\* The coordinates along the axis: their differences are multiples of 12, so
\* the spacing (max - min) / (len(targets) - 1) is a whole number for up to
\* five targets and the division of the code is exact.
DistributeCoords == {0, 12, 24, 36}

\* nodes 1..n with the x of cs and a y that runs the other way
SpreadNodes(cs) ==
    [i \in 1..Len(cs) |->
        NodeOf([id |-> i, x |-> cs[i], y |-> cs[Len(cs) + 1 - i] + 1], NoId)]

\* node_ids: two or more of the ids 1..n, in ascending order
IdLists(n) ==
    {SelectSeq([i \in 1..n |-> i], LAMBDA i : i \in S) :
        S \in {T \in SUBSET (1..n) : Cardinality(T) >= 2}}

\* distribute_nodes(nodes, node_ids, axis)
DistributeNodesCore ==
    /\ Fresh
    /\ \E n \in 3..MaxDistributeNodes :
        \E cs \in [1..n -> DistributeCoords], node_ids \in IdLists(n), axis \in Axes :
            Applied("distribute_nodes",
                    [nodes |-> SpreadNodes(cs), node_ids |-> node_ids, axis |-> axis],
                    [ok |-> distribute_ok(SpreadNodes(cs), node_ids, axis),
                     nodes |-> distribute_nodes(SpreadNodes(cs), node_ids, axis)])

\* ---------------------------------------------------- find_connected_components

\* The order in which a set of ids is iterated is not fixed by the language:
\* an order is a list of all ids, and a set is run through in that order.
IterationOrders == {<<1, 2, 3>>, <<3, 2, 1>>}

\* a neighbourhood that follows the edges forwards only
NeighboursForwardOnly(es, ids, id) ==
    {es[i].target : i \in {k \in 1..Len(es) :
        es[k].source = id /\ es[k].source \in ids /\ es[k].target \in ids}}

\* adjacency[id] of find_connected_components: the other ends of the edges at
\* id whose two ends are nodes of the diagram, as a set
Neighbours(es, ids, id) ==
    LET inner == {k \in 1..Len(es) : es[k].source \in ids /\ es[k].target \in ids}
    IN {es[k].target : k \in {i \in inner : es[i].source = id}}
       \cup {es[k].source : k \in {i \in inner : es[i].target = id}}

\* the while loop over the queue: the component found and the nodes visited
RECURSIVE ComponentBfs(_, _, _, _, _, _, _)
ComponentBfs(queue, visited, component_nodes, component_edges, es, ids, order) ==
    IF queue = <<>>
    THEN [node_ids |-> component_nodes, edge_count |-> component_edges,
          visited |-> visited]
    ELSE LET current == Head(queue) IN
         IF current \in visited
         THEN ComponentBfs(Tail(queue), visited, component_nodes, component_edges,
                           es, ids, order)
         ELSE LET seen == visited \cup {current}
                  found == SelectSeq(order, LAMBDA n :
                              n \in Neighbours(es, ids, current) /\ n \notin seen)
              IN ComponentBfs(Tail(queue) \o found, seen,
                              Append(component_nodes, current),
                              component_edges + Len(found), es, ids, order)

\* the loop over node_ids: a search from every node not visited yet
RECURSIVE ComponentsFrom(_, _, _, _, _)
ComponentsFrom(node_ids, visited, es, ids, order) ==
    IF node_ids = <<>> THEN <<>>
    ELSE IF Head(node_ids) \in visited
         THEN ComponentsFrom(Tail(node_ids), visited, es, ids, order)
         ELSE LET c == ComponentBfs(<<Head(node_ids)>>, visited, <<>>, 0, es, ids, order)
              IN <<[node_ids |-> c.node_ids, edge_count |-> c.edge_count]>>
                 \o ComponentsFrom(Tail(node_ids), c.visited, es, ids, order)

\* find_connected_components(diagram) under an iteration order of the sets
find_connected_components(ns, es, order) ==
    IF ns = <<>> THEN <<>>
    ELSE ComponentsFrom([i \in 1..Len(ns) |-> ns[i].id], {}, es,
                        {ns[i].id : i \in 1..Len(ns)}, order)

FindConnectedComponents ==
    /\ Fresh
    /\ \E ids \in GraphNodeLists, pairs \in GraphEdgeLists, order \in IterationOrders :
        Applied("find_connected_components",
                [nodes |-> ids, edges |-> pairs, order |-> order],
                find_connected_components(NodesOfGraph(ids), EdgesOfGraph(pairs), order))

\* ------------------------------------------------------------------ find_paths

\* max_depth: two small depths and the default
PathDepths == {1, 2, 10}

\* source_id and target_id: the same node or two nodes (the edge lists hold
\* every renaming of the ids)
PathEnds == {<<1, 1>>, <<1, 2>>}

\* dfs(current, path, visited) of find_paths, and the loop over the
\* neighbours within it: the paths appended, in the order they are appended.
\* The call adds the neighbour to path and visited and takes it out again,
\* so the rest of the loop sees both as they were.
RECURSIVE PathDfs(_, _, _, _, _, _)
RECURSIVE PathLoop(_, _, _, _, _, _)
PathDfs(current, path, visited, target_id, max_depth, es) ==
    IF Len(path) > max_depth THEN <<>>
    ELSE IF current = target_id THEN <<path>>
    ELSE PathLoop(Adjacency(es, current), path, visited, target_id, max_depth, es)

PathLoop(neighbours, path, visited, target_id, max_depth, es) ==
    IF neighbours = <<>> THEN <<>>
    ELSE LET neighbor == Head(neighbours)
             found == IF neighbor \notin visited
                      THEN PathDfs(neighbor, Append(path, neighbor),
                                   visited \cup {neighbor}, target_id, max_depth, es)
                      ELSE <<>>
         IN found \o PathLoop(Tail(neighbours), path, visited, target_id, max_depth, es)

\* find_paths(diagram, source_id, target_id, max_depth): the function reads
\* the edges of the diagram only
find_paths(es, source_id, target_id, max_depth) ==
    PathDfs(source_id, <<source_id>>, {source_id}, target_id, max_depth, es)

\* the nesting of dfs within dfs in find_paths: a call is nested as deep as
\* its path is long, and a call whose path is longer than max_depth or ends
\* at the target makes no further call
RECURSIVE PathFrames(_, _, _, _, _, _)
RECURSIVE PathLoopFrames(_, _, _, _, _, _)
PathFrames(current, path, visited, target_id, max_depth, es) ==
    IF Len(path) > max_depth \/ current = target_id THEN Len(path)
    ELSE PathLoopFrames(Adjacency(es, current), path, visited, target_id, max_depth, es)

PathLoopFrames(neighbours, path, visited, target_id, max_depth, es) ==
    IF neighbours = <<>> THEN Len(path)
    ELSE LET neighbor == Head(neighbours)
             below == IF neighbor \notin visited
                      THEN PathFrames(neighbor, Append(path, neighbor),
                                      visited \cup {neighbor}, target_id, max_depth, es)
                      ELSE Len(path)
         IN Max({below,
                 PathLoopFrames(Tail(neighbours), path, visited, target_id, max_depth, es)})

find_paths_frames(es, source_id, target_id, max_depth) ==
    PathFrames(source_id, <<source_id>>, {source_id}, target_id, max_depth, es)

FindPaths ==
    /\ Fresh
    /\ \E pairs \in GraphEdgeLists, ends \in PathEnds, max_depth \in PathDepths :
        AppliedNested("find_paths",
                      [edges |-> pairs, source_id |-> ends[1], target_id |-> ends[2],
                       max_depth |-> max_depth],
                      find_paths(EdgesOfGraph(pairs), ends[1], ends[2], max_depth),
                      find_paths_frames(EdgesOfGraph(pairs), ends[1], ends[2], max_depth))

\* ------------------------------------------------------------ summarize_diagram

\* top_n: one, two, and the default
TopCounts == {1, 2, 5}

\* calculate_node_connections(diagram): the NodeConnectionInfo of every node,
\* in node order (the order of the dict's values)
calculate_node_connections(ns, es) ==
    [i \in 1..Len(ns) |->
        [node_id |-> ns[i].id,
         label |-> ns[i].label,
         incoming |-> Cardinality({k \in 1..Len(es) : es[k].target = ns[i].id}),
         outgoing |-> Cardinality({k \in 1..Len(es) : es[k].source = ns[i].id})]]

\* NodeConnectionInfo.total
Total(info) == info.incoming + info.outgoing

\* most connected nodes taken in node order, without the sort
MostConnectedUnsorted(connections, top_n) ==
    SelectSeq(SubSeq(connections, 1, Min({top_n, Len(connections)})),
              LAMBDA info : Total(info) > 0)

\* sorted(connections.values(), key=total, reverse=True)[:top_n] without the
\* entries of total 0: the sort is stable, also when reversed
MostConnected(connections, top_n) ==
    LET by_total == SortedBy([i \in 1..Len(connections) |-> i],
                             [i \in 1..Len(connections) |-> 0 - Total(connections[i])])
        sorted_by_connections == [r \in 1..Len(by_total) |-> connections[by_total[r]]]
    IN SelectSeq(SubSeq(sorted_by_connections, 1,
                        Min({top_n, Len(sorted_by_connections)})),
                 LAMBDA info : Total(info) > 0)

\* summarize_diagram(diagram, top_n): the counts of the summary that depend
\* on the edges
summarize_diagram(ns, es, top_n) ==
    LET connections == calculate_node_connections(ns, es) IN
    [total_nodes |-> Len(ns),
     total_edges |-> Len(es),
     connected_components |-> Len(find_connected_components(ns, es, <<1, 2, 3>>)),
     most_connected_nodes |-> MostConnected(connections, top_n),
     orphan_count |-> Cardinality({i \in 1..Len(connections) :
                                      Total(connections[i]) = 0})]

SummarizeDiagram ==
    /\ Fresh
    /\ \E ids \in GraphNodeLists, pairs \in GraphEdgeLists, top_n \in TopCounts :
        Applied("summarize_diagram",
                [nodes |-> ids, edges |-> pairs, top_n |-> top_n],
                summarize_diagram(NodesOfGraph(ids), EdgesOfGraph(pairs), top_n))

\* ------------------------------------------------------------ Core

NextCore ==
    \/ GridLayout
    \/ FindCycles
    \/ ValidateDiagram
    \/ RoundTrip
    \/ ReadEdge
    \/ TreeLayout
    \/ DistributeNodesCore
    \/ FindConnectedComponents
    \/ FindPaths
    \/ SummarizeDiagram

\* the manager as constructed, with no call made yet
InitCore == Init /\ scope = "wide"

Core == InitCore /\ [][NextCore]_vars

\* ------------------------------------------------------------ change bridge

MaxConnections == 2

MaxChanges == 3

\* the clients that may hold a connection
WebSockets == 1..MaxConnections

\* ws_manager.broadcast(message) up to its first suspension: it returns at
\* once without a connection, and otherwise holds the lock and awaits the
\* first send_text
broadcast(b, message) ==
    IF b.connections = {}
      THEN [b EXCEPT !.at = "returned", !.message = message]
      ELSE [b EXCEPT !.at = "sending", !.message = message,
                     !.sending = b.connections, !.failed = {}]

\* ws_manager.notify_diagram_updated(diagram_id)
notify_diagram_updated(b, diagram_id) ==
    broadcast(b, [type |-> "diagram_updated", diagram_id |-> diagram_id])

\* the body of change_broadcaster's loop after wait() returned: the Event is
\* cleared, the id of the manager's diagram is read and the broadcast starts,
\* with no suspension in between; it announces every call of the callback
\* made so far. A broadcast that returned at once leads back to wait(),
\* which suspends since the Event was just cleared
Announce(b) ==
    LET cleared == [b EXCEPT !.event = FALSE, !.announced = b.invoked,
                             !.coalesced = b.invoked - b.announced]
        diagram_id == IF active THEN dinfo.id ELSE None
        started == notify_diagram_updated(cleared, diagram_id)
    IN  IF started.at = "returned" THEN [started EXCEPT !.at = "waiting"]
        ELSE started

\* wait() and clear() exchanged with the broadcast: the Event is cleared once
\* the broadcast is over
change_broadcaster_clearing_after(b) ==
    IF b.event /\ b.at # "sending" THEN Announce(b)
    ELSE [b EXCEPT !.event = FALSE, !.at = "waiting"]

\* change_broadcaster from the top of its loop up to its next suspension:
\* wait() returns without suspending when the Event is set
change_broadcaster(b) ==
    IF b.event THEN Announce(b) ELSE [b EXCEPT !.at = "waiting"]

\* on_diagram_change, the callback registered with the manager: Event.set()
\* wakes the task suspended in wait(), which runs again later
on_diagram_change(b) ==
    [b EXCEPT !.event = TRUE,
              !.invoked = b.invoked + 1,
              !.at = IF b.at = "waiting" THEN "woken" ELSE b.at,
              !.overlapped = IF b.at = "sending"
                               THEN b.overlapped \cup {b.invoked + 1}
                               ELSE b.overlapped]

\* the awaited send_text(message_text) to one client is over, having raised
\* or not: the next one is awaited, or the failed connections are dropped,
\* the lock released and the loop of change_broadcaster entered again
send_text(b, ws, raised) ==
    LET sent == [b EXCEPT !.sending = b.sending \ {ws},
                          !.failed = IF raised THEN b.failed \cup {ws}
                                     ELSE b.failed]
    IN  IF sent.sending # {} THEN sent
        ELSE change_broadcaster([sent EXCEPT
                 !.connections = sent.connections \ sent.failed,
                 !.failed = {}])

\* the manager and the core functions do not move
BridgeOnly ==
    /\ ManagerIdle
    /\ UNCHANGED applied

\* a mutation made by a request handler calls the callback
OnDiagramChange ==
    /\ bridge.invoked < MaxChanges
    /\ bridge' = on_diagram_change(bridge)
    /\ BridgeOnly

\* lifespan's asyncio.create_task(change_broadcaster()): the task's first run
CreateTask ==
    /\ bridge.at = "created"
    /\ bridge' = change_broadcaster(bridge)
    /\ BridgeOnly

\* the task woken by Event.set() runs again
Resume ==
    /\ bridge.at = "woken"
    /\ bridge' = change_broadcaster(bridge)
    /\ BridgeOnly

SendText ==
    /\ bridge.at = "sending"
    /\ \E ws \in bridge.sending, raised \in BOOLEAN :
        bridge' = send_text(bridge, ws, raised)
    /\ BridgeOnly

\* ws_manager.connect: the lock is free when no broadcast is under way
Connect ==
    /\ bridge.at # "sending"
    /\ \E ws \in WebSockets \ bridge.connections :
        bridge' = [bridge EXCEPT !.connections = bridge.connections \cup {ws}]
    /\ BridgeOnly

\* ws_manager.disconnect
Disconnect ==
    /\ bridge.at # "sending"
    /\ \E ws \in bridge.connections :
        bridge' = [bridge EXCEPT !.connections = bridge.connections \ {ws}]
    /\ BridgeOnly

\* the steps of the broadcaster task
Broadcaster == CreateTask \/ Resume \/ SendText

NextBridge ==
    \/ OnDiagramChange
    \/ CreateTask
    \/ Resume
    \/ SendText
    \/ Connect
    \/ Disconnect

InitBridge == Init /\ scope = "wide"

\* the broadcaster task keeps being scheduled
Bridge == InitBridge /\ [][NextBridge]_vars /\ WF_vars(Broadcaster)

\* ------------------------------------------------------------ grid layout

\* floor(sqrt(n))
FloorSqrt(n) == CHOOSE r \in 0..n : r * r <= n /\ (r + 1) * (r + 1) > n

\* C21: grid_layout places the i-th node of the list (0-based) at
\* x = start_x + (i mod c) * spacing_x, y = start_y + (i div c) * spacing_y,
\* with c the given column count or, when none is given,
\* max(3, floor(sqrt(n)) + 1); 5 nodes with c = 3 and the defaults land on
\* (100,100), (300,100), (500,100), (100,250), (300,250).
C21_GridLayoutPositions ==
    applied.fn = "grid_layout" =>
        LET a == applied.args
            g == a.geometry
            n == Len(a.nodes)
            c == IF a.columns # NoneV THEN a.columns[1]
                 ELSE IF FloorSqrt(n) + 1 > 3 THEN FloorSqrt(n) + 1 ELSE 3
            out == applied.result
        IN /\ Len(out) = n
           /\ \A i \in 0..(n - 1) :
                 /\ out[i + 1].id = a.nodes[i + 1].id
                 /\ out[i + 1].x = g.start_x + (i % c) * g.spacing_x
                 /\ out[i + 1].y = g.start_y + (i \div c) * g.spacing_y
           /\ (n = 5 /\ c = 3 /\ g.spacing_x = 200 /\ g.spacing_y = 150
                 /\ g.start_x = 100 /\ g.start_y = 100) =>
                 [i \in 1..5 |-> <<out[i].x, out[i].y>>] =
                     <<(<<100, 100>>), (<<300, 100>>), (<<500, 100>>),
                       (<<100, 250>>), (<<300, 250>>)>>

\* grid_layout was called on 5 nodes without a column count, with the default
\* spacing and start
C21_Witness ==
    /\ applied.fn = "grid_layout"
    /\ Len(applied.args.nodes) = 5
    /\ applied.args.columns = NoneV
    /\ applied.args.geometry.spacing_x = DEFAULT_SPACING_X
    /\ applied.result[4].y = 250

\* ------------------------------------------------------------ cycles

\* the ordered pairs joined by an edge of the call
EdgePairs == Range(applied.args.edges)

\* the ids of the nodes of the call
GivenNodeIds == Range(applied.args.nodes)

\* S is the node set of a simple directed cycle: its nodes can be put in a
\* ring in which every node has an edge to the next
SimpleCycleOn(S) ==
    LET k == Cardinality(S) IN
    \E ring \in [1..k -> S] :
        /\ \A i, j \in 1..k : ring[i] = ring[j] => i = j
        /\ \A i \in 1..k : <<ring[i], ring[(i % k) + 1]>> \in EdgePairs

IssuesOf(severity, kind) ==
    SelectSeq(applied.result, LAMBDA i : i.severity = severity /\ i.kind = kind)

\* the edges of the call, by position (the i-th edge has the id i)
EdgeAt == DOMAIN applied.args.edges

\* C23: for a non-empty diagram validate_diagram emits exactly one aggregated
\* orphan warning when some node has no incident edge and none otherwise,
\* exactly one self-loop warning per edge whose source is its target, and
\* exactly one error per edge endpoint that is not the id of a node; nodes
\* 1, 2, 3 with edges 1 -> 1, 1 -> 3, 1 -> 3 give one self-loop warning, one
\* orphan warning, one duplicate-edge warning and no error.
C23_ValidationCounts ==
    (applied.fn = "validate_diagram" /\ applied.args.nodes # <<>>) =>
        LET es == applied.args.edges
            lonely == {n \in GivenNodeIds :
                          \A i \in EdgeAt : es[i][1] # n /\ es[i][2] # n}
            loops == {i \in EdgeAt : es[i][1] = es[i][2]}
            dangling == {<<i, k>> \in EdgeAt \X {1, 2} : es[i][k] \notin GivenNodeIds}
            errors == SelectSeq(applied.result, LAMBDA i : i.severity = "error")
        IN /\ Len(IssuesOf("warning", "orphans")) = IF lonely # {} THEN 1 ELSE 0
           /\ lonely # {} => Range(IssuesOf("warning", "orphans")[1].listed) = lonely
           /\ Len(IssuesOf("warning", "self")) = Cardinality(loops)
           /\ \A i \in loops :
                 \E k \in DOMAIN applied.result :
                     applied.result[k].kind = "self" /\ applied.result[k].edge_id = i
           /\ Len(errors) = Cardinality(dangling)
           /\ \A d \in dangling :
                 \E k \in DOMAIN errors :
                     /\ errors[k].edge_id = d[1]
                     /\ errors[k].kind = IF d[2] = 1 THEN "source" ELSE "target"
           /\ (applied.args.nodes = <<1, 2, 3>>
                 /\ es = <<(<<1, 1>>), (<<1, 3>>), (<<1, 3>>)>>) =>
                 /\ Len(IssuesOf("warning", "self")) = 1
                 /\ Len(IssuesOf("warning", "orphans")) = 1
                 /\ Len(IssuesOf("warning", "duplicate")) = 1
                 /\ errors = <<>>

\* nodes 1, 2, 3 with edges 1 -> 1, 1 -> 3, 1 -> 3 were validated: node 2 is the
\* orphan
C23_Witness ==
    /\ applied.fn = "validate_diagram"
    /\ applied.args.nodes = <<1, 2, 3>>
    /\ applied.args.edges = <<(<<1, 1>>), (<<1, 3>>), (<<1, 3>>)>>
    /\ \E k \in DOMAIN applied.result : applied.result[k].listed = <<2>>

\* ------------------------------------------------------------ round trip

\* the end of an edge dict under its canonical key, else under its legacy key,
\* else under its legacy _node key
EndGiven(d, canonical, legacy, legacy_node) ==
    IF canonical \in DOMAIN d THEN d[canonical]
    ELSE IF legacy \in DOMAIN d THEN d[legacy]
    ELSE d[legacy_node]

\* C24, the part about the legacy keys: an edge given with from/to (or
\* from_node/to_node) is read as the edge given with source/target, and a
\* legacy key counts only when the canonical key is absent.
C24_LegacyKeysRead ==
    applied.fn = "Edge" =>
        /\ applied.result.source =
              EndGiven(applied.args.data, "source", "from", "from_node")
        /\ applied.result.target =
              EndGiven(applied.args.data, "target", "to", "to_node")

\* C24: from_json_dict(d.to_json_dict()) is field-for-field equal to d for
\* every diagram d (ids, node fields, edge fields with the connection sides,
\* metadata and timestamps), and the legacy edge keys are read as above.
C24_RoundTripExact ==
    /\ applied.fn = "round_trip" => applied.result = applied.args.diagram
    /\ C24_LegacyKeysRead

\* C24 with a connection side of "" taken for no side.
C24_RoundTripUpToEmptySides ==
    applied.fn = "round_trip" => SameDiagram(applied.result, applied.args.diagram)

\* ------------------------------------------------------------ FIFO eviction

\* more than max_history successful mutations in a row are on record,
\* followed only by undos
LongStreak == Streak /\ Len(trail.states) = TrailLen + 1 /\ trail.redos = 0

InnerPairs == {p \in EdgePairs : p[1] \in GivenNodeIds /\ p[2] \in GivenNodeIds}

\* the nodes no such edge enters, or the first node when every node is entered
Unentered == {id \in GivenNodeIds : \A p \in InnerPairs : p[2] # id}

RootSet == IF Unentered # {} THEN Unentered ELSE {applied.args.nodes[1]}

\* layers[k + 1]: the nodes a directed path of at most k edges reaches from a
\* root, for k up to the number of nodes
RECURSIVE Layers(_)
Layers(k) ==
    IF k = 0 THEN <<RootSet>>
    ELSE LET below == Layers(k - 1)
             nearer == below[k]
         IN Append(below,
                   nearer \cup {p[2] : p \in {q \in InnerPairs : q[1] \in nearer}})

\* the length of the shortest directed path from a root, 0 for a node that no
\* path from a root reaches
ShortestLevel(layers, id) ==
    IF id \in layers[Len(layers)]
    THEN Min({k \in 0..(Len(layers) - 1) : id \in layers[k + 1]})
    ELSE 0

\* the number of nodes of the same level earlier in the list
IndexInLevel(layers, i) ==
    Cardinality({j \in 1..(i - 1) :
        ShortestLevel(layers, applied.args.nodes[j])
            = ShortestLevel(layers, applied.args.nodes[i])})

C27_ChildBelowParent ==
    (/\ applied.fn = "tree_layout"
     /\ applied.args.orientation = "vertical"
     /\ applied.args.geometry.spacing_y > 0) =>
        \A p \in InnerPairs :
            p[1] # p[2] =>
                \A i, j \in 1..Len(applied.result) :
                    (applied.result[i].id = p[1] /\ applied.result[j].id = p[2]) =>
                        applied.result[j].y > applied.result[i].y

\* the edges inside the node list form a forest: no node is entered by a loop
\* or by two edges, and every node is reached from a node that none enters
InnerForest ==
    /\ \A p \in InnerPairs : p[1] # p[2]
    /\ \A i, j \in 1..Len(applied.args.edges) :
          (/\ applied.args.edges[i] \in InnerPairs
           /\ applied.args.edges[i][2] = applied.args.edges[j][2]
           /\ applied.args.edges[j] \in InnerPairs) => i = j
    /\ Unentered # {}
    /\ GivenNodeIds \subseteq
          Layers(Cardinality(GivenNodeIds))[Cardinality(GivenNodeIds) + 1]

\* C27 on a forest: the child is one level below its parent.
C27_ChildBelowParentInForest ==
    (/\ applied.fn = "tree_layout"
     /\ applied.args.orientation = "vertical"
     /\ applied.args.geometry.spacing_y > 0
     /\ InnerForest) =>
        \A p \in InnerPairs :
            \A i, j \in 1..Len(applied.result) :
                (applied.result[i].id = p[1] /\ applied.result[j].id = p[2]) =>
                    applied.result[j].y
                        = applied.result[i].y + applied.args.geometry.spacing_y

\* ------------------------------------------------------------ distribution

\* the coordinate of a node along the axis of the call, and across it
Along(n) == IF applied.args.axis = "horizontal" THEN n.x ELSE n.y

Across(n) == IF applied.args.axis = "horizontal" THEN n.y ELSE n.x

\* the list positions of the targets of the call
DistributeTargets ==
    {i \in 1..Len(applied.args.nodes) :
        applied.args.nodes[i].id \in Range(applied.args.node_ids)}

\* C28: distribute_nodes on at least 3 targets keeps the coordinate along the
\* axis of the target with the smallest and of the target with the largest
\* one (of the first such target of the list for the smallest and the last
\* for the largest when several share it), preserves the order of the targets
\* along the axis, makes the gaps between consecutive targets all equal, and
\* changes neither the other coordinate of a target nor a node that is no
\* target.
C28_DistributeEvenly ==
    (applied.fn = "distribute_nodes" /\ Cardinality(DistributeTargets) >= 3) =>
        LET before == applied.args.nodes
            after == applied.result.nodes
            T == DistributeTargets
            k == Cardinality(T)
            lo == Min({Along(before[i]) : i \in T})
            hi == Max({Along(before[i]) : i \in T})
            first == Min({i \in T : Along(before[i]) = lo})
            last == Max({i \in T : Along(before[i]) = hi})
            gap == (hi - lo) \div (k - 1)
        IN /\ applied.result.ok
           /\ Len(after) = Len(before)
           /\ Along(after[first]) = lo
           /\ Along(after[last]) = hi
           /\ \A i, j \in T :
                 Along(before[i]) < Along(before[j]) => Along(after[i]) < Along(after[j])
           /\ gap * (k - 1) = hi - lo
           /\ \A r \in 0..(k - 1) :
                 Cardinality({i \in T : Along(after[i]) = lo + r * gap})
                     = IF gap = 0 THEN k ELSE 1
           /\ \A i \in T : after[i] = [before[i] EXCEPT !.x = after[i].x, !.y = after[i].y]
           /\ \A i \in T : Across(after[i]) = Across(before[i])
           /\ \A i \in 1..Len(before) : i \notin T => after[i] = before[i]

\* three of four nodes are spread along y: the targets are out of order in the
\* list, an interior target moves and the fourth node is no target
C28_Witness ==
    /\ applied.fn = "distribute_nodes"
    /\ applied.args.axis = "vertical"
    /\ applied.args.node_ids = <<1, 2, 4>>
    /\ applied.args.nodes[1].y > applied.args.nodes[4].y
    /\ applied.args.nodes[4].y > applied.args.nodes[2].y
    /\ applied.result.nodes[4] # applied.args.nodes[4]
    /\ applied.result.ok

\* ------------------------------------------------------------ components

\* joined[k + 1]: the nodes an undirected path of at most k edges, each with
\* both ends among the nodes given, joins to the node a
RECURSIVE JoinedTo(_, _)
JoinedTo(a, k) ==
    IF k = 0 THEN <<{a}>>
    ELSE LET below == JoinedTo(a, k - 1)
             nearer == below[k]
         IN Append(below,
                   nearer \cup {p[2] : p \in {q \in InnerPairs : q[1] \in nearer}}
                          \cup {p[1] : p \in {q \in InnerPairs : q[2] \in nearer}})

\* the nodes joined to a by an undirected path
ComponentOf(a) == JoinedTo(a, Cardinality(GivenNodeIds))[Cardinality(GivenNodeIds) + 1]

\* C29: find_connected_components returns a partition of the node ids: every
\* node id is listed once, in one component; two nodes are in the same
\* component exactly when an undirected path of edges with both ends among
\* the nodes joins them; an edge with a missing end is passed over.
C29_ComponentsPartition ==
    applied.fn = "find_connected_components" =>
        LET comps == applied.result IN
        /\ \A id \in GivenNodeIds :
              Cardinality({ck \in (DOMAIN comps) \X (1..Cardinality(GivenNodeIds)) :
                              /\ ck[2] <= Len(comps[ck[1]].node_ids)
                              /\ comps[ck[1]].node_ids[ck[2]] = id}) = 1
        /\ \A c \in DOMAIN comps :
              /\ comps[c].node_ids # <<>>
              /\ Range(comps[c].node_ids) = ComponentOf(comps[c].node_ids[1])

\* nodes 1 and 2 with the edges 1 -> 3 and 3 -> 2 through the missing node 3
\* and a loop at 2: the two edges with a missing end are passed over and the
\* nodes are two components
C29_Witness ==
    /\ applied.fn = "find_connected_components"
    /\ applied.args.nodes = <<1, 2>>
    /\ applied.args.edges = <<(<<1, 3>>), (<<3, 2>>), (<<2, 2>>)>>
    /\ Len(applied.result) = 2
    /\ applied.result[2].node_ids = <<2>>

\* ------------------------------------------------------------ paths

\* the simple directed paths from source_id to target_id along the edges
\* given that have at most max_depth nodes
SimplePaths ==
    LET longest == Min({applied.args.max_depth, Cardinality(GraphIds)}) IN
    {p \in UNION {[1..m -> GraphIds] : m \in 1..longest} :
        /\ p[1] = applied.args.source_id
        /\ p[Len(p)] = applied.args.target_id
        /\ \A i, j \in 1..Len(p) : p[i] = p[j] => i = j
        /\ \A i \in 1..(Len(p) - 1) : <<p[i], p[i + 1]>> \in EdgePairs}

\* C30: find_paths returns exactly the simple directed paths from source to
\* target with at most max_depth nodes, each of them once, for every edge
\* list, also one with several edges between the same ordered pair of nodes.
C30_FindPathsExactlyOnce ==
    applied.fn = "find_paths" =>
        /\ Range(applied.result) = SimplePaths
        /\ \A i, j \in 1..Len(applied.result) :
              applied.result[i] = applied.result[j] => i = j

\* C30 without the count: the paths returned are the simple paths, and a path
\* is returned as often as there are ways to choose an edge for each of its
\* steps.
C30_FindPathsAsOftenAsEdges ==
    applied.fn = "find_paths" =>
        /\ Range(applied.result) = SimplePaths
        /\ \A p \in SimplePaths :
              LET ways[i \in 0..(Len(p) - 1)] ==
                      IF i = 0 THEN 1
                      ELSE ways[i - 1] * Cardinality({k \in 1..Len(applied.args.edges) :
                              applied.args.edges[k] = <<p[i], p[i + 1]>>})
              IN Cardinality({k \in 1..Len(applied.result) : applied.result[k] = p})
                    = ways[Len(p) - 1]

\* ------------------------------------------------------------ termination

\* The nested calls the interpreter allows before it raises RecursionError:
\* sys.getrecursionlimit(), 1000 unless changed.  It is scaled here to the
\* graphs checked, whose longest simple path has 3 nodes.
RecursionLimit == 2

\* the ids named by the node list or by an edge
IdsNamed == GivenNodeIds \cup {p[1] : p \in EdgePairs} \cup {p[2] : p \in EdgePairs}

\* C31: find_cycles and find_paths end on every finite diagram (directed
\* cycles, loops, duplicate edges and edges naming no node included) and
\* return a result instead of raising: no call nests dfs deeper than the
\* interpreter allows.
C31_SearchesReturn ==
    applied.fn \in {"find_cycles", "find_paths"} => applied.frames <= RecursionLimit

\* C31, termination alone: every nested call of dfs has a longer path of
\* distinct ids, so the nesting of find_cycles ends at the number of ids
\* named and the one of find_paths at that number or at max_depth + 1.
C31_SearchesEnd ==
    /\ applied.fn = "find_cycles" => applied.frames <= Cardinality(IdsNamed)
    /\ applied.fn = "find_paths" =>
          applied.frames <= Min({applied.args.max_depth + 1,
                                 Cardinality({p[1] : p \in EdgePairs}
                                             \cup {p[2] : p \in EdgePairs}
                                             \cup {applied.args.source_id})})

\* ------------------------------------------------------------ summary

\* the edges given that leave the node plus the ones that enter it
Degree(id) ==
    Cardinality({k \in 1..Len(applied.args.edges) : applied.args.edges[k][1] = id})
    + Cardinality({k \in 1..Len(applied.args.edges) : applied.args.edges[k][2] = id})

\* the place of a node in the node list given
PlaceOf(id) == CHOOSE i \in 1..Len(applied.args.nodes) : applied.args.nodes[i] = id

\* C32: summarize_diagram lists at most top_n nodes as most connected, all of
\* a total degree above 0 and as many as there are up to top_n, in
\* non-increasing order of total degree with nodes of equal degree in node
\* order; no node left out has a larger degree than a listed one; and
\* orphan_count is the number of nodes of total degree 0.
C32_MostConnectedAndOrphans ==
    applied.fn = "summarize_diagram" =>
        LET listed == applied.result.most_connected_nodes
            named == {listed[r].node_id : r \in 1..Len(listed)}
            linked == {id \in GivenNodeIds : Degree(id) > 0}
        IN /\ Len(listed) = Min({applied.args.top_n, Cardinality(linked)})
           /\ Cardinality(named) = Len(listed)
           /\ named \subseteq linked
           /\ \A r \in 1..Len(listed) :
                 /\ listed[r].incoming + listed[r].outgoing = Degree(listed[r].node_id)
                 /\ \A q \in 1..(r - 1) :
                       \/ Degree(listed[q].node_id) > Degree(listed[r].node_id)
                       \/ /\ Degree(listed[q].node_id) = Degree(listed[r].node_id)
                          /\ PlaceOf(listed[q].node_id) < PlaceOf(listed[r].node_id)
           /\ \A id \in GivenNodeIds \ named :
                 \A r \in 1..Len(listed) : Degree(id) <= Degree(listed[r].node_id)
           /\ applied.result.orphan_count = Cardinality(GivenNodeIds \ linked)

\* the nodes 3, 1, 2 with a loop at 2 and an edge 3 -> 1: node 2 comes first
\* with degree 2, the nodes 3 and 1 tie with degree 1 and only 3, the earlier
\* in the list, is within the top two
C32_Witness ==
    /\ applied.fn = "summarize_diagram"
    /\ applied.args.nodes = <<3, 1, 2>>
    /\ applied.args.edges = <<(<<2, 2>>), (<<3, 1>>)>>
    /\ applied.args.top_n = 2
    /\ Len(applied.result.most_connected_nodes) = 2
    /\ applied.result.most_connected_nodes[1].node_id = 2
    /\ applied.result.most_connected_nodes[2].node_id = 3

\* ------------------------------------------------------------ duplicate edges

\* the edges given that repeat the ordered pair of an earlier edge, in edge
\* order
RepeatedEdges ==
    SelectSeq([i \in 1..Len(applied.args.edges) |-> i],
              LAMBDA i : \E j \in 1..(i - 1) :
                            applied.args.edges[j] = applied.args.edges[i])

\* the duplicate warnings are attached to the repeated edges, one each, in
\* edge order: k - 1 warnings for an ordered pair that k edges carry, none for
\* the first edge of a pair, and none for an edge B -> A after an edge A -> B
DuplicatesFlagged ==
    LET flagged == IssuesOf("warning", "duplicate")
    IN [k \in 1..Len(flagged) |-> flagged[k].edge_id] = RepeatedEdges

\* C33: validate_diagram flags duplicates by exact ordered (source, target)
\* pair: k - 1 duplicate warnings for a pair carried by k edges, attached to
\* every edge after the first in edge order, and never a warning for an edge
\* B -> A as a duplicate of A -> B; for every diagram.
C33_DuplicatesByOrderedPair ==
    applied.fn = "validate_diagram" => DuplicatesFlagged

\* C33 for a diagram with at least one node; a diagram without nodes gets the
\* one info issue and no duplicate warning, whatever its edges.
C33_DuplicatesByOrderedPairWithNodes ==
    applied.fn = "validate_diagram" =>
        IF applied.args.nodes # <<>> THEN DuplicatesFlagged
        ELSE applied.result = <<Issue("info", "empty", NoId, NoId, <<>>)>>

\* nodes 1 and 2 with the edges 1 -> 2, 2 -> 1, 1 -> 2: the third edge is
\* flagged, the second is not
C33_Witness ==
    /\ applied.fn = "validate_diagram"
    /\ applied.args.nodes = <<1, 2>>
    /\ applied.args.edges = <<(<<1, 2>>), (<<2, 1>>), (<<1, 2>>)>>
    /\ Len(IssuesOf("warning", "duplicate")) = 1
    /\ IssuesOf("warning", "duplicate")[1].edge_id = 3

\* ------------------------------------------------------------ search

\* the nodes of the node collection that satisfy every predicate supplied
Satisfying(label, tag, node_type) ==
    {r \in NodesHeld :
        /\ label # None =>
              Within(Lower(Letters(label)), Lower(Letters(nodeObj[r].label)))
        /\ tag # None => tag \in Range(nodeObj[r].tags)
        /\ node_type # None => nodeObj[r].type = node_type}

\* search_nodes answers every query with the nodes of the collection that
\* satisfy it
SearchExact ==
    \A label \in LabelQueries, tag \in Tags \cup {None}, node_type \in NodeTypes \cup {None} :
        search_nodes(label, tag, node_type) = Satisfying(label, tag, node_type)

\* C34: in every reachable state of the store search_nodes(label, tag, type)
\* returns exactly the nodes of the node collection that satisfy all the
\* predicates supplied (the label as a substring whatever the case, the tag
\* as a member, the type as equal), whichever of the tag index, the type
\* index and the node list the candidates come from; an absent predicate
\* does not filter.
C34_SearchExact == SearchExact

\* C34 in the states whose indexes answer for the collections as they are.
C34_SearchExactUnderSoundIndexes == IndexesReflectCollections => SearchExact

\* ------------------------------------------------------------ the two stacks

\* the snapshots on the undo stack and on the redo stack together
Stacked == Len(history) + Len(future)

\* C35: in every reachable state len(history) + len(future) <= max_history:
\* a successful undo or redo moves one snapshot from one stack to the other
\* and keeps the sum, and a committed mutation empties the redo stack, so the
\* redo stack is bounded by the maximum of the undo stack.
C35_StacksBoundedTogether ==
    /\ [](Stacked <= max_history)
    /\ [][/\ (lastOp'.op = "undo" /\ lastOp'.ok) =>
                /\ Len(history') = Len(history) - 1
                /\ Len(future') = Len(future) + 1
          /\ (lastOp'.op = "redo" /\ lastOp'.ok) =>
                /\ Len(history') = Len(history) + 1
                /\ Len(future') = Len(future) - 1
          /\ (lastOp'.op \in MutatingOps /\ lastOp'.ok) => future' = <<>>]_vars

\* a full undo stack after one undo: a snapshot on each stack, max_history
\* in all
C35_Witness ==
    /\ lastOp.op = "undo"
    /\ lastOp.ok
    /\ history # <<>>
    /\ future # <<>>
    /\ Stacked = max_history

\* ------------------------------------------------------------ edge endpoints

\* the error issues validate_diagram reports for the live diagram
LiveErrors ==
    SelectSeq(validate_diagram(NodeList, EdgeList), LAMBDA i : i.severity = "error")

\* C36: in every state reached from new_diagram through the operations of
\* the store (open_diagram apart) every edge's source and target are ids of
\* nodes of the node collection, so validate_diagram reports no error.
C36_EdgesReferenceNodes ==
    (active /\ scope # "env") =>
        /\ \A r \in EdgesHeld :
              edgeObj[r].source \in NodeIdsHeld /\ edgeObj[r].target \in NodeIdsHeld
        /\ LiveErrors = <<>>

\* C36 while no endpoint of an edge and no id of a node was rewritten: the
\* states whose indexes answer for the collections.
C36_EdgesReferenceNodesUnderSoundIndexes ==
    (active /\ scope # "env" /\ IndexesReflectCollections) =>
        /\ \A r \in EdgesHeld :
              edgeObj[r].source \in NodeIdsHeld /\ edgeObj[r].target \in NodeIdsHeld
        /\ LiveErrors = <<>>

\* ------------------------------------------------------------ C37

\* C37: no change is lost by the bridge. For every call of the callback
\* on_diagram_change, the broadcaster task, as long as it keeps being
\* scheduled, eventually starts a diagram_updated broadcast after that call,
\* whether the call came before the task first ran, while it was suspended in
\* wait(), or while a broadcast was under way; a broadcast never announces a
\* call that was not made, and one broadcast may announce several calls.
C37_NoChangeLost ==
    /\ [](bridge.announced <= bridge.invoked)
    /\ \A i \in 1..MaxChanges :
          (bridge.invoked >= i) ~> (bridge.announced >= i)

\* a broadcast with clients connected has started that announces two calls at
\* once, one of them made while the broadcast before it was under way
C37_Witness ==
    /\ bridge.at = "sending"
    /\ bridge.coalesced >= 2
    /\ \E i \in bridge.overlapped : bridge.announced >= i
    /\ bridge.message.type = "diagram_updated"


\* ------------------------------------------------------------ C38

\* the last call was a new_diagram, or an open_diagram that found its file
JustReplaced ==
    /\ lastOp.op \in {"new_diagram", "open_diagram"}
    /\ ~lastOp.raised

\* C38: right after new_diagram or open_diagram both stacks are empty and the
\* dirty flag is false, whatever the diagram before had stacked; and with both
\* stacks empty undo() and redo() return None, notify nobody and leave the
\* diagram, its indexes, the stacks and the flag as they are, so that no
\* state of the diagram replaced is reached through them.
C38_ReplacingResetsStacks ==
    /\ [](JustReplaced => (history = <<>> /\ future = <<>> /\ ~dirty /\ active))
    /\ [][(/\ history = <<>>
           /\ future = <<>>
           /\ lastOp'.op \in {"undo", "redo"}) =>
                /\ UNCHANGED store
                /\ ~lastOp'.ok
                /\ lastOp'.notified = 0]_vars

\* undo() has just returned None on a second, clean and empty diagram, while
\* a named snapshot still holds the first diagram with the node added to it
C38_Witness ==
    /\ lastOp.op = "undo"
    /\ ~lastOp.ok
    /\ active
    /\ ~dirty
    /\ history = <<>>
    /\ nodes = <<>>
    /\ \E n \in DOMAIN snapshots :
          /\ snapshots[n].diagram.id # dinfo.id
          /\ snapshots[n].diagram.nodes # <<>>

\* ------------------------------------------------------------ C39

\* the places the call handed back, by position in the list
PlacedAt == [i \in DOMAIN applied.result |->
                <<applied.result[i].x, applied.result[i].y>>]

\* C39: with positive spacing, grid_layout (columns None or at least 1) and
\* tree_layout (either orientation) give the nodes at two different positions
\* of the list two different (x, y) places, for every node list and every edge
\* list: cycles, self-loops, edges naming nodes outside the list, nodes that no
\* root reaches.
C39_LayoutsNeverOverlap ==
    (/\ applied.fn \in {"grid_layout", "tree_layout"}
     /\ applied.args.geometry.spacing_x > 0
     /\ applied.args.geometry.spacing_y > 0
     /\ (applied.fn = "grid_layout" /\ applied.args.columns # NoneV) =>
            applied.args.columns[1] >= 1) =>
        /\ Len(applied.result) = Len(applied.args.nodes)
        /\ \A i, j \in DOMAIN applied.result : i # j => PlacedAt[i] # PlacedAt[j]

\* tree_layout of three nodes that all have an incoming edge: 1 and 2 on a
\* cycle, 3 with a self-loop only. Node 1 is made the root, node 2 sits one
\* level down, and node 3, which the root does not reach, is put on level 0
\* next to node 1
C39_Witness ==
    /\ applied.fn = "tree_layout"
    /\ applied.args.nodes = <<1, 2, 3>>
    /\ applied.args.edges = <<(<<1, 2>>), (<<2, 1>>), (<<3, 3>>)>>
    /\ applied.args.orientation = "vertical"
    /\ applied.args.geometry.spacing_x = DEFAULT_SPACING_X
    /\ PlacedAt = <<(<<100, 100>>), (<<100, 250>>), (<<300, 100>>)>>
====
